---- MODULE Spec2Model ----
(***************************************************************************)
(* The data-access layer of mroobert/json-api: the movie and user          *)
(* repositories over one relational store, the optimistic-concurrency      *)
(* update, and the HTTP handler that drives it.                            *)
(*                                                                         *)
(* Every request runs on its own unit of execution (a process p).  A       *)
(* repository call is three steps: the call renders its argument list and  *)
(* issues one statement (pc "sent"), the store executes the statement      *)
(* atomically or the 3-second deadline passes (pc "answered"), and the     *)
(* call classifies the reply and returns (pc "ready").  Steps of           *)
(* different processes interleave freely.                                  *)
(***************************************************************************)
EXTENDS Integers, Sequences, FiniteSets, TLC

\* ---------------------------------------------------------------- bounds
NumProcs == 2
MaxId == 2
MaxVersion == 3
MaxTotal == 45
MaxCurrentPage == 3

Procs == 1..NumProcs

\* ------------------------------------------------------- business values
\* The business fields a caller supplies: every field differs between the
\* two inputs.
NewMovie(title, year, runtime, genres) ==
  [Title |-> title, Year |-> year, Runtime |-> runtime, Genres |-> genres]

MovieInputs ==
  {NewMovie("Up", 2009, 96, <<"animation", "adventure">>),
   NewMovie("Coco", 2017, 105, <<"family">>)}

\* The UpdateMovie struct: a field is a pointer, absent (<<>>) or present
\* with its value (<<v>>); Genres is a nil slice (<<>>) or a slice (<<g>>).
UpdateMovie(title, year, runtime, genres) ==
  [Title |-> title, Year |-> year, Runtime |-> runtime, Genres |-> genres]

\* A request body: one that web.ReadJSON rejects, or a decoded UpdateMovie.
Body(ok, input) == [ok |-> ok, input |-> input]

UpdateBodies ==
  {Body(FALSE, UpdateMovie(<<>>, <<>>, <<>>, <<>>)),
   Body(TRUE, UpdateMovie(<<>>, <<>>, <<>>, <<>>)),
   Body(TRUE, UpdateMovie(<<"Coco">>, <<>>, <<>>, <<>>)),
   Body(TRUE, UpdateMovie(<<"">>, <<>>, <<>>, <<>>)),
   Body(TRUE, UpdateMovie(<<"Soul">>, <<2020>>, <<100>>, << <<"family">> >>))}

\* time.Now().Year() when the requests are served.
CurrentYear == 2026

\* What the callers of one specification can present and how far its store
\* grows: the processes that run, the ids and versions they present (0 is
\* below every stored id and every stored version), the business fields,
\* the request bodies, the last id the sequence hands out and the last
\* version a row reaches.
Scope(procs, ids, versions, inputs, bodies, maxId, maxVersion) ==
  [procs |-> procs, ids |-> ids, versions |-> versions, inputs |-> inputs,
   bodies |-> bodies, maxId |-> maxId, maxVersion |-> maxVersion]

\* ------------------------------------------------------ filters (listing)
\* A sort parameter is the sequence of its parts: "-title" is <<"-", "title">>.
\* The Filters struct.
Filters(page, pageSize, sort, safelist) ==
  [Page |-> page, PageSize |-> pageSize, Sort |-> sort, SortSafelist |-> safelist]

\* The safelist readAllMoviesHandler sets.
MovieSortSafelist ==
  {<<"id">>, <<"title">>, <<"year">>, <<"runtime">>,
   <<"-", "id">>, <<"-", "title">>, <<"-", "year">>, <<"-", "runtime">>}

\* strings.HasPrefix(s, "-") and strings.TrimPrefix(s, "-")
HasPrefix(s) == Len(s) > 0 /\ s[1] = "-"
TrimPrefix(s) == IF HasPrefix(s) THEN Tail(s) ELSE s

\* Filters.SortColumn panics on a sort parameter outside the safelist.
SortColumnPanics(f) == f.Sort \notin f.SortSafelist
SortColumn(f) == TrimPrefix(f.Sort)
SortDirection(f) == IF HasPrefix(f.Sort) THEN "DESC" ELSE "ASC"
\* Limit asking for one record more than the page holds.
LimitOneMore(f) == f.PageSize + 1
Limit(f) == f.PageSize

\* Offset counting the page asked for among the pages skipped.
OffsetFromPage(f) == f.Page * f.PageSize

Offset(f) == (f.Page - 1) * f.PageSize

\* The limits ValidateFilters puts on Page and PageSize.
MaxPage == 10000000
MaxPageSize == 100

\* validator.PermittedValue
PermittedValue(value, permitted) == value \in permitted

\* Filters.ValidateFilters, as v.Valid() afterwards: no check has failed.
ValidateFilters(f) ==
  /\ f.Page > 0
  /\ f.Page <= MaxPage
  /\ f.PageSize > 0
  /\ f.PageSize <= MaxPageSize
  /\ PermittedValue(f.Sort, f.SortSafelist)

\* The Metadata struct and NewMetadata; math.Ceil of the quotient of two
\* positive integers is the integer ceiling.
Metadata(current, size, first, last, total) ==
  [CurrentPage |-> current, PageSize |-> size, FirstPage |-> first,
   LastPage |-> last, TotalRecords |-> total]

ZeroMetadata == Metadata(0, 0, 0, 0, 0)

\* NewMetadata truncating the quotient.
NewMetadataTruncates(totalRecords, page, pageSize) ==
  IF totalRecords = 0 THEN ZeroMetadata
  ELSE Metadata(page, pageSize, 1, totalRecords \div pageSize, totalRecords)

NewMetadata(totalRecords, page, pageSize) ==
  IF totalRecords = 0 THEN ZeroMetadata
  ELSE Metadata(page, pageSize, 1,
                (totalRecords + pageSize - 1) \div pageSize, totalRecords)

\* The NewUser values and the values of the fields an update changes.
Emails == {"ann@example.com", "bob@example.com"}

\* The NewUser struct.
NewUser(name, email, password) ==
  [Name |-> name, Email |-> email, Password |-> password]

\* The bodies of a registration request: one that web.ReadJSON rejects, two
\* users that pass validation, and users without a name, with an address
\* that is no email address, and with a password of four bytes.
RegisterBodies ==
  {Body(FALSE, NewUser("", "", "")),
   Body(TRUE, NewUser("Ann", "ann@example.com", "pa55word")),
   Body(TRUE, NewUser("Bob", "bob@example.com", "pa55word")),
   Body(TRUE, NewUser("", "ann@example.com", "pa55word")),
   Body(TRUE, NewUser("Ann", "ann.example.com", "pa55word")),
   Body(TRUE, NewUser("Ann", "ann@example.com", "pa55"))}

\* A listing request: the title query, the genres and the filters.
Listing(title, genres, f) == [title |-> title, genres |-> genres, filters |-> f]

Listings ==
  {Listing("", <<>>, Filters(1, 2, <<"id">>, MovieSortSafelist)),
   Listing("", <<>>, Filters(2, 1, <<"-", "title">>, MovieSortSafelist)),
   Listing("up", <<"animation">>, Filters(1, 1, <<"year">>, MovieSortSafelist)),
   Listing("", <<"family">>, Filters(1, 2, <<"-", "id">>, MovieSortSafelist)),
   Listing("coco", <<>>, Filters(1, 2, <<"runtime">>, MovieSortSafelist)),
   Listing("", <<>>, Filters(1, 2, <<"version">>, MovieSortSafelist))}

\* ------------------------------------------------------------ error kinds
Nil == "nil"
ErrRecordNotFound == "record not found"
ErrEditConflict == "edit conflict"
pgxErrNoRows == "pgx: no rows in result set"
sqlErrNoRows == "sql: no rows in result set"
DeadlineExceeded == "context deadline exceeded"

ErrDuplicateEmail == "duplicate email"

\* The *pgconn.PgError of a unique-constraint violation, and its Code
\* (database.UniqueViolation).
PgUniqueViolation == "pgconn.PgError: unique_violation"
UniqueViolation == "23505"

\* A *pgconn.PgError with another code: the server refuses the statement
\* (admin_shutdown).
PgAdminShutdown == "pgconn.PgError: admin_shutdown"
AdminShutdown == "57P01"

PgErrorCode(e) ==
  IF e = PgUniqueViolation THEN UniqueViolation
  ELSE IF e = PgAdminShutdown THEN AdminShutdown
  ELSE ""

\* errors.Is on the sentinels above: none of them wraps another one (the
\* pgx of go.mod, v5.0.4, declares ErrNoRows with errors.New).
ErrorsIs(e, target) == e = target

\* errors.As(err, &pgError)
ErrorsAsPgError(e) == e \in {PgUniqueViolation, PgAdminShutdown}

\* ------------------------------------------------------------- the store
\* A movies row.
Row(id, createdAt, title, year, runtime, genres, version) ==
  [id |-> id, created_at |-> createdAt, title |-> title, year |-> year,
   runtime |-> runtime, genres |-> genres, version |-> version]

\* The answer of the store to one statement: the table afterwards, the
\* rows it returns and the number of rows it affected.
Answer(tbl, rows, affected) ==
  [table |-> tbl, rows |-> rows, affected |-> affected, code |-> ""]

\* INSERT INTO movies (title, year, runtime, genres) VALUES ($1, $2, $3, $4)
\* RETURNING id, created_at, version
createMovieSQL(tbl, next, a) ==
  Answer([i \in DOMAIN tbl \cup {next} |->
            IF i = next THEN Row(next, next, a[1], a[2], a[3], a[4], 1)
            ELSE tbl[i]],
         << <<next, next, 1>> >>, 1)

\* The read statement naming runtime before year in its column list.
readMovieSQLSwapsColumns(tbl, a) ==
  IF a[1] \in DOMAIN tbl
  THEN Answer(tbl, << <<tbl[a[1]].id, tbl[a[1]].created_at, tbl[a[1]].title,
                        tbl[a[1]].runtime, tbl[a[1]].year, tbl[a[1]].genres,
                        tbl[a[1]].version>> >>, 1)
  ELSE Answer(tbl, <<>>, 0)

\* SELECT id, created_at, title, year, runtime, genres, version
\* FROM movies WHERE id = $1
readMovieSQL(tbl, a) ==
  IF a[1] \in DOMAIN tbl
  THEN Answer(tbl, << <<tbl[a[1]].id, tbl[a[1]].created_at, tbl[a[1]].title,
                        tbl[a[1]].year, tbl[a[1]].runtime, tbl[a[1]].genres,
                        tbl[a[1]].version>> >>, 1)
  ELSE Answer(tbl, <<>>, 0)

\* The update statement without its version predicate (WHERE id = $5).
updateMovieSQLAnyVersion(tbl, a) ==
  IF a[5] \in DOMAIN tbl
  THEN Answer([tbl EXCEPT ![a[5]] =
                 Row(@.id, @.created_at, a[1], a[2], a[3], a[4], @.version + 1)],
              << <<tbl[a[5]].version + 1>> >>, 1)
  ELSE Answer(tbl, <<>>, 0)

\* The update statement taking the new version from the caller
\* (SET version = $6 + 1 WHERE id = $5).
updateMovieSQLClientVersion(tbl, a) ==
  IF a[5] \in DOMAIN tbl
  THEN Answer([tbl EXCEPT ![a[5]] =
                 Row(@.id, @.created_at, a[1], a[2], a[3], a[4], a[6] + 1)],
              << <<a[6] + 1>> >>, 1)
  ELSE Answer(tbl, <<>>, 0)

\* The update statement without its id predicate (WHERE version = $6),
\* returning the version of the row asked for when it is among the rows
\* updated.
updateMovieSQLAnyId(tbl, a) ==
  IF a[5] \in DOMAIN tbl /\ tbl[a[5]].version = a[6]
  THEN Answer([i \in DOMAIN tbl |->
                 IF tbl[i].version = a[6]
                 THEN Row(tbl[i].id, tbl[i].created_at, a[1], a[2], a[3], a[4],
                          tbl[i].version + 1)
                 ELSE tbl[i]],
              << <<tbl[a[5]].version + 1>> >>, 1)
  ELSE Answer(tbl, <<>>, 0)

\* The update statement matching a row at or after the version presented
\* (WHERE id = $5 AND version >= $6).
updateMovieSQLLaterVersion(tbl, a) ==
  IF a[5] \in DOMAIN tbl /\ tbl[a[5]].version >= a[6]
  THEN Answer([tbl EXCEPT ![a[5]] =
                 Row(@.id, @.created_at, a[1], a[2], a[3], a[4], @.version + 1)],
              << <<tbl[a[5]].version + 1>> >>, 1)
  ELSE Answer(tbl, <<>>, 0)

\* UPDATE movies SET title = $1, year = $2, runtime = $3, genres = $4,
\* version = version + 1 WHERE id = $5 AND version = $6 RETURNING version
updateMovieSQL(tbl, a) ==
  IF a[5] \in DOMAIN tbl /\ tbl[a[5]].version = a[6]
  THEN Answer([tbl EXCEPT ![a[5]] =
                 Row(@.id, @.created_at, a[1], a[2], a[3], a[4], @.version + 1)],
              << <<tbl[a[5]].version + 1>> >>, 1)
  ELSE Answer(tbl, <<>>, 0)

\* to_tsvector('simple', text) and plainto_tsquery('simple', text): the
\* lower-cased words of the text, for the texts of the model.
Lexemes(text) ==
  CASE text \in {"Up", "up"} -> {"up"}
    [] text \in {"Coco", "coco"} -> {"coco"}
    [] text \in {"Soul", "soul"} -> {"soul"}
    [] OTHER -> {}

\* tsvector @@ tsquery: every word of the query is in the text, and a query
\* without words matches nothing.
TsMatch(text, query) ==
  Lexemes(query) # {} /\ Lexemes(query) \subseteq Lexemes(text)

\* genres @> $2
ArrayContains(genres, wanted) ==
  \A i \in 1..Len(wanted) : \E j \in 1..Len(genres) : genres[j] = wanted[i]

\* The position of a title in the store's collation, for the titles of the
\* model.
TitleRank(t) ==
  CASE t = "" -> 0 [] t = "Coco" -> 1 [] t = "Soul" -> 2 [] t = "Up" -> 3

\* The value a row is ordered by.
SortKey(row, col) ==
  CASE col = <<"id">> -> row.id
    [] col = <<"title">> -> TitleRank(row.title)
    [] col = <<"year">> -> row.year
    [] col = <<"runtime">> -> row.runtime
    [] col = <<"version">> -> row.version

\* ORDER BY col dir, id ASC
Before(a, b, col, dir) ==
  IF SortKey(a, col) # SortKey(b, col)
  THEN IF dir = "ASC" THEN SortKey(a, col) < SortKey(b, col)
       ELSE SortKey(a, col) > SortKey(b, col)
  ELSE a.id < b.id

RECURSIVE Ordered(_, _, _)
Ordered(rows, col, dir) ==
  IF rows = {} THEN <<>>
  ELSE LET first == CHOOSE a \in rows :
                      \A b \in rows \ {a} : Before(a, b, col, dir)
       IN <<first>> \o Ordered(rows \ {first}, col, dir)

\* The listing statement without the escapes for an empty title and empty
\* genres (WHERE to_tsvector('simple', title) @@ plainto_tsquery('simple',
\* $1) AND genres @> $2).
readAllMoviesSQLNoEscape(tbl, col, dir, a) ==
  LET matching == {tbl[i] : i \in {j \in DOMAIN tbl :
                     /\ TsMatch(tbl[j].title, a[1])
                     /\ ArrayContains(tbl[j].genres, a[2])}}
      all == Ordered(matching, col, dir)
      from == a[4] + 1
      to == IF a[4] + a[3] < Len(all) THEN a[4] + a[3] ELSE Len(all)
      page == SubSeq(all, from, to)
  IN Answer(tbl,
            [k \in 1..Len(page) |->
               <<Len(all), page[k].id, page[k].created_at, page[k].title,
                 page[k].year, page[k].runtime, page[k].genres, page[k].version>>],
            Len(page))

\* SELECT count(*) OVER(), id, created_at, title, year, runtime, genres,
\* version FROM movies WHERE (to_tsvector('simple', title) @@
\* plainto_tsquery('simple', $1) OR $1 = '') AND (genres @> $2 OR $2 = '{}')
\* ORDER BY col dir, id ASC LIMIT $3 OFFSET $4
readAllMoviesSQL(tbl, col, dir, a) ==
  LET matching == {tbl[i] : i \in {j \in DOMAIN tbl :
                     /\ TsMatch(tbl[j].title, a[1]) \/ a[1] = ""
                     /\ ArrayContains(tbl[j].genres, a[2]) \/ a[2] = <<>>}}
      all == Ordered(matching, col, dir)
      from == a[4] + 1
      to == IF a[4] + a[3] < Len(all) THEN a[4] + a[3] ELSE Len(all)
      page == SubSeq(all, from, to)
  IN Answer(tbl,
            [k \in 1..Len(page) |->
               <<Len(all), page[k].id, page[k].created_at, page[k].title,
                 page[k].year, page[k].runtime, page[k].genres, page[k].version>>],
            Len(page))

\* DELETE FROM movies WHERE id = $1
deleteMovieSQL(tbl, a) ==
  IF a[1] \in DOMAIN tbl
  THEN Answer([i \in DOMAIN tbl \ {a[1]} |-> tbl[i]], <<>>, 1)
  ELSE Answer(tbl, <<>>, 0)

\* A users row.
UserRow(id, createdAt, name, email, hash, activated, version) ==
  [id |-> id, created_at |-> createdAt, name |-> name, email |-> email,
   password_hash |-> hash, activated |-> activated, version |-> version]

\* The statement fails: nothing changes and the store reports the SQLSTATE.
Failure(tbl, code) == [table |-> tbl, rows |-> <<>>, affected |-> 0, code |-> code]

\* The unique index on users.email is violated by a row other than id.
EmailTaken(tbl, email, id) ==
  \E i \in DOMAIN tbl : i # id /\ tbl[i].email = email

\* INSERT INTO users (name, email, password_hash, activated)
\* VALUES ($1, $2, $3, $4) RETURNING id, created_at, version
createUserSQL(tbl, next, a) ==
  IF EmailTaken(tbl, a[2], next) THEN Failure(tbl, UniqueViolation)
  ELSE Answer([i \in DOMAIN tbl \cup {next} |->
                 IF i = next THEN UserRow(next, next, a[1], a[2], a[3], a[4], 1)
                 ELSE tbl[i]],
              << <<next, next, 1>> >>, 1)

\* SELECT id, created_at, name, email, password_hash, activated, version
\* FROM users WHERE email = $1
readUserSQL(tbl, a) ==
  LET found == {i \in DOMAIN tbl : tbl[i].email = a[1]}
  IN IF found = {} THEN Answer(tbl, <<>>, 0)
     ELSE LET u == tbl[CHOOSE i \in found : TRUE]
          IN Answer(tbl, << <<u.id, u.created_at, u.name, u.email,
                              u.password_hash, u.activated, u.version>> >>, 1)

\* UPDATE users SET name = $1, email = $2, password_hash = $3,
\* activated = $4, version = version + 1 WHERE id = $5 AND version = $6
\* RETURNING version
updateUserSQL(tbl, a) ==
  IF a[5] \in DOMAIN tbl /\ tbl[a[5]].version = a[6]
  THEN IF EmailTaken(tbl, a[2], a[5]) THEN Failure(tbl, UniqueViolation)
       ELSE Answer([tbl EXCEPT ![a[5]] =
                      UserRow(@.id, @.created_at, a[1], a[2], a[3], a[4],
                              @.version + 1)],
                   << <<tbl[a[5]].version + 1>> >>, 1)
  ELSE Answer(tbl, <<>>, 0)

\* ------------------------------------------------------ the caller's side
\* The User struct.
User(id, createdAt, name, email, hash, activated, version) ==
  [ID |-> id, CreatedAt |-> createdAt, Name |-> name, Email |-> email,
   PasswordHash |-> hash, Activated |-> activated, Version |-> version]

ZeroUser == User(0, 0, "", "", "", FALSE, 0)

\* User.FromNewUser
FromNewUser(u, in) ==
  [u EXCEPT !.Name = in.Name, !.Email = in.Email, !.Activated = FALSE]

\* The password struct: plaintext is a pointer, nil (<<>>) or set (<<s>>);
\* hash is nil ("") or the bcrypt hash.
Password(plaintext, hash) == [plaintext |-> plaintext, hash |-> hash]

BcryptErr == "bcrypt: reading the salt failed"

\* password.Set: bcrypt.GenerateFromPassword succeeds or, when the source
\* of randomness fails, returns its error; the struct is assigned only on
\* success.
PasswordSet(pw, plain, generated) ==
  IF generated THEN [password |-> Password(<<plain>>, "hash"), err |-> Nil]
  ELSE [password |-> pw, err |-> BcryptErr]

\* len(s) for the names and passwords of the model.
ByteLen(str) ==
  CASE str = "" -> 0 [] str = "Ann" -> 3 [] str = "Bob" -> 3
    [] str = "pa55" -> 4 [] str = "pa55word" -> 8

\* validator.Matches(email, validator.EmailRX), for the addresses of the
\* model.
MatchesEmailRX(email) == email \in Emails

\* ValidateEmail and ValidatePasswordPlaintext: the fields of the checks
\* that fail.
ValidateEmail(email) ==
  IF email # "" /\ MatchesEmailRX(email) THEN {} ELSE {"email"}

ValidatePasswordPlaintext(plain) ==
  IF plain # "" /\ ByteLen(plain) >= 8 /\ ByteLen(plain) <= 72
  THEN {} ELSE {"password"}

\* User.Validate: the fields of the checks that fail, and whether it ends
\* in the panic for a nil password hash.
UserValidate(u, pw) ==
  [errors |-> (IF u.Name # "" /\ ByteLen(u.Name) <= 500 THEN {} ELSE {"name"})
                \cup ValidateEmail(u.Email)
                \cup (IF pw.plaintext # <<>>
                      THEN ValidatePasswordPlaintext(pw.plaintext[1]) ELSE {}),
   panics |-> pw.hash = ""]

\* The Movie struct.
Movie(id, createdAt, title, year, runtime, genres, version) ==
  [ID |-> id, CreatedAt |-> createdAt, Title |-> title, Year |-> year,
   Runtime |-> runtime, Genres |-> genres, Version |-> version]

ZeroMovie == Movie(0, 0, "", 0, 0, <<>>, 0)

\* Movie.FromNewMovie
FromNewMovie(m, in) ==
  [m EXCEPT !.Title = in.Title, !.Year = in.Year, !.Runtime = in.Runtime,
            !.Genres = in.Genres]

\* FromUpdateMovie passing over a field that is present with its zero
\* value.
FromUpdateMovieSkipsZero(m, in) ==
  [m EXCEPT !.Title = IF in.Title # <<>> /\ in.Title[1] # "" THEN in.Title[1] ELSE @,
            !.Year = IF in.Year # <<>> /\ in.Year[1] # 0 THEN in.Year[1] ELSE @,
            !.Runtime = IF in.Runtime # <<>> /\ in.Runtime[1] # 0
                        THEN in.Runtime[1] ELSE @,
            !.Genres = IF in.Genres # <<>> /\ in.Genres[1] # <<>>
                       THEN in.Genres[1] ELSE @]

\* Movie.FromUpdateMovie
FromUpdateMovie(m, in) ==
  [m EXCEPT !.Title = IF in.Title # <<>> THEN in.Title[1] ELSE @,
            !.Year = IF in.Year # <<>> THEN in.Year[1] ELSE @,
            !.Runtime = IF in.Runtime # <<>> THEN in.Runtime[1] ELSE @,
            !.Genres = IF in.Genres # <<>> THEN in.Genres[1] ELSE @]

\* Movie.Validate, as vld.Valid() afterwards: no check has failed.  Every
\* title of the model is shorter than 500 bytes.
Validate(m) ==
  /\ m.Title # ""
  /\ m.Year # 0 /\ m.Year >= 1888 /\ m.Year <= CurrentYear
  /\ m.Runtime # 0 /\ m.Runtime > 0
  /\ Len(m.Genres) >= 1 /\ Len(m.Genres) <= 5
  /\ \A i, j \in 1..Len(m.Genres) : m.Genres[i] = m.Genres[j] => i = j

\* What a store call hands back to the repository: the deadline error
\* ("timeout"), the error of a statement that violated a unique constraint
\* ("failed") or that the server refused ("refused"), or the rows and the
\* command tag of the statement ("ok").
Reply(status, rows, affected) ==
  [status |-> status, rows |-> rows, affected |-> affected]

NoReply == Reply("none", <<>>, 0)

\* The reply to a statement the store has executed.
ReplyOf(answer) ==
  IF answer.code # "" THEN Reply("failed", <<>>, 0)
  ELSE Reply("ok", answer.rows, answer.affected)

\* Row.Scan taking a deadline that passed for an empty result.
ScanErrNoContext(r) ==
  IF r.status = "failed" THEN PgUniqueViolation
  ELSE IF r.status = "refused" THEN PgAdminShutdown
  ELSE IF Len(r.rows) = 0 THEN pgxErrNoRows
  ELSE Nil

\* Row.Scan of pgx.QueryRow: the context's error when the deadline passed,
\* the store's error when the statement failed, pgx.ErrNoRows when it
\* returned no row, otherwise no error.
ScanErr(r) ==
  IF r.status = "timeout" THEN DeadlineExceeded
  ELSE IF r.status = "failed" THEN PgUniqueViolation
  ELSE IF r.status = "refused" THEN PgAdminShutdown
  ELSE IF Len(r.rows) = 0 THEN pgxErrNoRows
  ELSE Nil

\* The error of pool.Exec and pool.Query.
ExecErr(r) ==
  IF r.status = "timeout" THEN DeadlineExceeded
  ELSE IF r.status = "failed" THEN PgUniqueViolation
  ELSE IF r.status = "refused" THEN PgAdminShutdown
  ELSE Nil

\* What ReadAll returns next to its error: a slice of movies, which is
\* not nil even when it is empty, and the metadata; or the nil slice and
\* the zero metadata.
List(ms, md) == [isNil |-> FALSE, movies |-> ms, metadata |-> md]

NoList == [isNil |-> TRUE, movies |-> <<>>, metadata |-> ZeroMetadata]

\* A repository call's outcome: the caller's struct afterwards, the error
\* returned, whether the call goes back to the store, and the list
\* returned.
Outcome(m, e, again) ==
  [movie |-> m, err |-> e, again |-> again, list |-> NoList]

\* A panic in place of an error returned.
PanicUnsafeSort == "panic: unsafe sort parameter"

VARIABLES
  movies,   \* the movies table: id -> row
  nextId,   \* the id sequence of the movies table
  pc,       \* per process: "ready", "sent" or "answered"
  op,       \* per process: the repository operation in progress, or the last one
  args,     \* per process: the argument list of the current or last call
  reply,    \* per process: the store's reply on its way back
  movie,    \* per process: the caller's Movie struct
  err,      \* per process: the error the last repository call returned
  stmts,    \* per process: statements the current call issued to the store
  list,     \* per process: what the last ReadAll returned
  users,    \* the users table: id -> row
  nextUserId, \* the id sequence of the users table
  user,     \* per process: the caller's User struct
  hpc,      \* per process: where its handler's request stands
  resp,     \* per process: the response its last request sent
  hcalls,   \* per process: repository calls its request has made
  reg,      \* per process: what its registerUserHandler request has done
  calc      \* a call of a function of the packages: name, arguments, result

vars ==
  <<movies, nextId, pc, op, args, reply, movie, err, stmts, list, users,
    nextUserId, user, hpc, resp, hcalls, reg, calc>>

\* The variables of the user repository alone.
uvars == <<users, nextUserId, user>>

\* The variables of a request.
hvars == <<hpc, resp, hcalls, reg>>

\* What a registerUserHandler request has done: the outcome of
\* password.Set ("none", "set", "failed"), the outcome of User.Validate
\* ("none", "valid", "invalid", "panic"), the responses it has sent, in
\* order, and the fields of the validation errors.
Registration(hash, validate, responses, errors) ==
  [hash |-> hash, validate |-> validate, responses |-> responses,
   errors |-> errors]

NoRegistration == Registration("none", "none", <<>>, {})

\* A call of a function that touches no store: not made yet, or made.
Call(fn, in) == [fn |-> fn, in |-> in, done |-> FALSE, out |-> <<>>]
Result(c, out) == [c EXCEPT !.done = TRUE, !.out = out]
NoCall == Call("none", <<>>)

\* The store is empty and no process has called anything.
StoreInit ==
  /\ movies = <<>>
  /\ nextId = 1
  /\ pc = [p \in Procs |-> "ready"]
  /\ op = [p \in Procs |-> "none"]
  /\ args = [p \in Procs |-> <<>>]
  /\ reply = [p \in Procs |-> NoReply]
  /\ movie = [p \in Procs |-> ZeroMovie]
  /\ err = [p \in Procs |-> Nil]
  /\ stmts = [p \in Procs |-> 0]
  /\ list = [p \in Procs |-> NoList]
  /\ users = <<>>
  /\ nextUserId = 1
  /\ user = [p \in Procs |-> ZeroUser]
  /\ hpc = [p \in Procs |-> "idle"]
  /\ resp = [p \in Procs |-> "none"]
  /\ hcalls = [p \in Procs |-> 0]
  /\ reg = [p \in Procs |-> NoRegistration]

Init == StoreInit /\ calc = NoCall

\* A repository call issues its statement.
Issue(p, o, m, a) ==
  /\ pc' = [pc EXCEPT ![p] = "sent"]
  /\ op' = [op EXCEPT ![p] = o]
  /\ args' = [args EXCEPT ![p] = a]
  /\ movie' = [movie EXCEPT ![p] = m]
  /\ reply' = [reply EXCEPT ![p] = NoReply]
  /\ err' = [err EXCEPT ![p] = Nil]
  /\ stmts' = [stmts EXCEPT ![p] = 1]
  /\ list' = [list EXCEPT ![p] = NoList]
  /\ UNCHANGED <<movies, nextId, uvars, calc>>

\* A repository call returns without a store round-trip.
ReturnEarly(p, o, m, a, e) ==
  /\ pc' = [pc EXCEPT ![p] = "ready"]
  /\ op' = [op EXCEPT ![p] = o]
  /\ args' = [args EXCEPT ![p] = a]
  /\ movie' = [movie EXCEPT ![p] = m]
  /\ reply' = [reply EXCEPT ![p] = NoReply]
  /\ err' = [err EXCEPT ![p] = e]
  /\ stmts' = [stmts EXCEPT ![p] = 0]
  /\ list' = [list EXCEPT ![p] = NoList]
  /\ UNCHANGED <<movies, nextId, uvars, calc>>

\* A repository call takes the store's reply and returns, or issues its
\* statement again.
Finish(p, out) ==
  /\ pc' = [pc EXCEPT ![p] = IF out.again THEN "sent" ELSE "ready"]
  /\ movie' = [movie EXCEPT ![p] = out.movie]
  /\ err' = [err EXCEPT ![p] = out.err]
  /\ reply' = [reply EXCEPT ![p] = NoReply]
  /\ stmts' = [stmts EXCEPT ![p] = IF out.again THEN @ + 1 ELSE @]
  /\ list' = [list EXCEPT ![p] = out.list]
  /\ UNCHANGED <<movies, nextId, op, args, uvars, calc>>

\* ------------------------------------------------- MovieRepository.Create
CreateArgs(m) == <<m.Title, m.Year, m.Runtime, m.Genres>>

\* Create scanning the returned id and timestamp but not the version.
CreateOutcomeKeepsVersion(m, r) ==
  IF ScanErr(r) # Nil THEN Outcome(m, ScanErr(r), FALSE)
  ELSE Outcome([m EXCEPT !.ID = r.rows[1][1], !.CreatedAt = r.rows[1][2]],
               Nil, FALSE)

CreateOutcome(m, r) ==
  IF ScanErr(r) # Nil THEN Outcome(m, ScanErr(r), FALSE)
  ELSE Outcome([m EXCEPT !.ID = r.rows[1][1], !.CreatedAt = r.rows[1][2],
                         !.Version = r.rows[1][3]], Nil, FALSE)

Create(p, m) == Issue(p, "Create", m, CreateArgs(m))

CreateCall(p, sc) ==
  /\ pc[p] = "ready" /\ hpc[p] = "idle"
  /\ UNCHANGED hvars
  /\ \E in \in sc.inputs : Create(p, FromNewMovie(ZeroMovie, in))

\* Create called with a Movie struct that already carries an ID, a
\* CreatedAt and a Version.
CreateOverCall(p, sc) ==
  /\ pc[p] = "ready" /\ hpc[p] = "idle"
  /\ UNCHANGED hvars
  /\ \E in \in sc.inputs, id \in sc.ids, v \in sc.versions :
       Create(p, FromNewMovie(Movie(id, v, "", 0, 0, <<>>, v), in))

CreateReturn(p) ==
  /\ pc[p] = "answered" /\ op[p] = "Create"
  /\ UNCHANGED hvars
  /\ Finish(p, CreateOutcome(movie[p], reply[p]))

\* --------------------------------------------------- MovieRepository.Read
\* Read handing the driver's error on as it is.
ReadOutcomeRaw(r) ==
  IF ScanErr(r) # Nil
  THEN Outcome(ZeroMovie, ScanErr(r), FALSE)
  ELSE Outcome(Movie(r.rows[1][1], r.rows[1][2], r.rows[1][3], r.rows[1][4],
                     r.rows[1][5], r.rows[1][6], r.rows[1][7]), Nil, FALSE)

ReadOutcome(r) ==
  IF ScanErr(r) # Nil
  THEN IF ErrorsIs(ScanErr(r), pgxErrNoRows)
       THEN Outcome(ZeroMovie, ErrRecordNotFound, FALSE)
       ELSE Outcome(ZeroMovie, ScanErr(r), FALSE)
  ELSE Outcome(Movie(r.rows[1][1], r.rows[1][2], r.rows[1][3], r.rows[1][4],
                     r.rows[1][5], r.rows[1][6], r.rows[1][7]), Nil, FALSE)

Read(p, id) ==
  IF id < 1
  THEN ReturnEarly(p, "Read", ZeroMovie, <<id>>, ErrRecordNotFound)
  ELSE Issue(p, "Read", ZeroMovie, <<id>>)

ReadCall(p, sc) ==
  /\ pc[p] = "ready" /\ hpc[p] = "idle"
  /\ UNCHANGED hvars
  /\ \E id \in sc.ids : Read(p, id)

ReadReturn(p) ==
  /\ pc[p] = "answered" /\ op[p] = "Read"
  /\ UNCHANGED hvars
  /\ Finish(p, ReadOutcome(reply[p]))

\* ------------------------------------------------- MovieRepository.Update
UpdateArgs(m) == <<m.Title, m.Year, m.Runtime, m.Genres, m.ID, m.Version>>

\* Update scanning the returned version into a copy of the struct.
UpdateOutcomeKeepsVersion(m, r) ==
  IF ScanErr(r) # Nil
  THEN IF ErrorsIs(ScanErr(r), pgxErrNoRows)
       THEN Outcome(m, ErrEditConflict, FALSE)
       ELSE Outcome(m, ScanErr(r), FALSE)
  ELSE Outcome(m, Nil, FALSE)

\* Update reporting a statement that found no row as a missing record.
UpdateOutcomeNotFound(m, r) ==
  IF ScanErr(r) # Nil
  THEN IF ErrorsIs(ScanErr(r), pgxErrNoRows)
       THEN Outcome(m, ErrRecordNotFound, FALSE)
       ELSE Outcome(m, ScanErr(r), FALSE)
  ELSE Outcome([m EXCEPT !.Version = r.rows[1][1]], Nil, FALSE)

\* Update issuing its statement again after a statement that found no row.
UpdateOutcomeRetries(m, r) ==
  IF ScanErr(r) # Nil
  THEN IF ErrorsIs(ScanErr(r), pgxErrNoRows)
       THEN Outcome(m, ErrEditConflict, TRUE)
       ELSE Outcome(m, ScanErr(r), FALSE)
  ELSE Outcome([m EXCEPT !.Version = r.rows[1][1]], Nil, FALSE)

\* Update scanning into the caller's version even when no row came back,
\* which leaves it zero.
UpdateOutcomeZeroesVersion(m, r) ==
  IF ScanErr(r) # Nil
  THEN IF ErrorsIs(ScanErr(r), pgxErrNoRows)
       THEN Outcome([m EXCEPT !.Version = 0], ErrEditConflict, FALSE)
       ELSE Outcome(m, ScanErr(r), FALSE)
  ELSE Outcome([m EXCEPT !.Version = r.rows[1][1]], Nil, FALSE)

UpdateOutcome(m, r) ==
  IF ScanErr(r) # Nil
  THEN IF ErrorsIs(ScanErr(r), pgxErrNoRows)
       THEN Outcome(m, ErrEditConflict, FALSE)
       ELSE Outcome(m, ScanErr(r), FALSE)
  ELSE Outcome([m EXCEPT !.Version = r.rows[1][1]], Nil, FALSE)

Update(p, m) == Issue(p, "Update", m, UpdateArgs(m))

UpdateCall(p, sc) ==
  /\ pc[p] = "ready" /\ hpc[p] = "idle"
  /\ UNCHANGED hvars
  /\ \E id \in sc.ids, v \in sc.versions, in \in sc.inputs :
       Update(p, FromNewMovie(Movie(id, 0, "", 0, 0, <<>>, v), in))

UpdateReturn(p) ==
  /\ pc[p] = "answered" /\ op[p] = "Update"
  /\ UNCHANGED hvars
  /\ Finish(p, UpdateOutcome(movie[p], reply[p]))

\* ------------------------------------------------- MovieRepository.Delete
\* Delete without the look at the rows affected.
DeleteOutcomeAnyCount(m, r) ==
  IF ExecErr(r) # Nil THEN Outcome(m, ExecErr(r), FALSE)
  ELSE Outcome(m, Nil, FALSE)

DeleteOutcome(m, r) ==
  IF ExecErr(r) # Nil THEN Outcome(m, ExecErr(r), FALSE)
  ELSE IF r.affected = 0 THEN Outcome(m, ErrRecordNotFound, FALSE)
  ELSE Outcome(m, Nil, FALSE)

Delete(p, id) ==
  IF id < 1
  THEN ReturnEarly(p, "Delete", ZeroMovie, <<id>>, ErrRecordNotFound)
  ELSE Issue(p, "Delete", ZeroMovie, <<id>>)

DeleteCall(p, sc) ==
  /\ pc[p] = "ready" /\ hpc[p] = "idle"
  /\ UNCHANGED hvars
  /\ \E id \in sc.ids : Delete(p, id)

DeleteReturn(p) ==
  /\ pc[p] = "answered" /\ op[p] = "Delete"
  /\ UNCHANGED hvars
  /\ Finish(p, DeleteOutcome(movie[p], reply[p]))

\* ------------------------------------------------ MovieRepository.ReadAll
\* The statement's text carries the sort column and direction; its
\* arguments are the title, the genres, the limit and the offset.
ReadAllArgs(l) ==
  <<l.title, l.genres, Limit(l.filters), Offset(l.filters),
    SortColumn(l.filters), SortDirection(l.filters)>>

\* The rows scanned into movies, in the order returned.
ScanMovies(rows) ==
  [k \in 1..Len(rows) |->
     Movie(rows[k][2], rows[k][3], rows[k][4], rows[k][5], rows[k][6],
           rows[k][7], rows[k][8])]

\* totalRecords after the loop over the rows: the count of the last row.
TotalRecords(rows) == IF Len(rows) = 0 THEN 0 ELSE rows[Len(rows)][1]

\* ReadAll appending to a nil slice (var movies []*Movie).
ReadAllOutcomeNilSlice(f, r) ==
  IF ExecErr(r) # Nil
  THEN [Outcome(ZeroMovie, ExecErr(r), FALSE) EXCEPT !.list = NoList]
  ELSE [Outcome(ZeroMovie, Nil, FALSE) EXCEPT
          !.list = IF Len(r.rows) = 0 THEN NoList
                   ELSE List(ScanMovies(r.rows),
                             NewMetadata(TotalRecords(r.rows), f.Page, f.PageSize))]

ReadAllOutcome(f, r) ==
  IF ExecErr(r) # Nil
  THEN [Outcome(ZeroMovie, ExecErr(r), FALSE) EXCEPT !.list = NoList]
  ELSE [Outcome(ZeroMovie, Nil, FALSE) EXCEPT
          !.list = List(ScanMovies(r.rows),
                        NewMetadata(TotalRecords(r.rows), f.Page, f.PageSize))]

\* ReadAll building its statement from a sort parameter it has not
\* looked up in the safelist.
ReadAllUnchecked(p, l) == Issue(p, "ReadAll", ZeroMovie, <<l>>)

ReadAll(p, l) ==
  IF SortColumnPanics(l.filters)
  THEN ReturnEarly(p, "ReadAll", ZeroMovie, <<l>>, PanicUnsafeSort)
  ELSE Issue(p, "ReadAll", ZeroMovie, <<l>>)

ReadAllCall(p, lists) ==
  /\ pc[p] = "ready" /\ hpc[p] = "idle"
  /\ UNCHANGED hvars
  /\ \E l \in lists : ReadAll(p, l)

ReadAllReturn(p) ==
  /\ pc[p] = "answered" /\ op[p] = "ReadAll"
  /\ UNCHANGED hvars
  /\ Finish(p, ReadAllOutcome(args[p][1].filters, reply[p]))

\* -------------------------------------------------------- the store steps
\* The statement a process has issued, executed on the store as it is now.
Execute(p) ==
  CASE op[p] = "Create" -> createMovieSQL(movies, nextId, args[p])
    [] op[p] = "Read"   -> readMovieSQL(movies, args[p])
    [] op[p] = "Update" -> updateMovieSQL(movies, args[p])
    [] op[p] = "Delete" -> deleteMovieSQL(movies, args[p])
    [] op[p] = "ReadAll" ->
         readAllMoviesSQL(movies, ReadAllArgs(args[p][1])[5],
                          ReadAllArgs(args[p][1])[6], ReadAllArgs(args[p][1]))

\* The store executes the statement of p, atomically, within the deadline.
StoreAnswer(p, sc) ==
  /\ pc[p] = "sent"
  /\ op[p] \in {"Create", "Read", "Update", "Delete", "ReadAll"}
  /\ op[p] = "Create" => nextId <= sc.maxId
  /\ op[p] = "Update" /\ args[p][5] \in DOMAIN movies
       => movies[args[p][5]].version < sc.maxVersion
  /\ movies' = Execute(p).table
  /\ nextId' = IF op[p] = "Create" THEN nextId + 1 ELSE nextId
  /\ reply' = [reply EXCEPT ![p] = ReplyOf(Execute(p))]
  /\ pc' = [pc EXCEPT ![p] = "answered"]
  /\ UNCHANGED <<op, args, movie, err, stmts, list, uvars, hvars, calc>>

\* The 3-second deadline of the call's context passes first: the driver
\* abandons the statement and the store keeps no effect of it.
StoreTimeout(p) ==
  /\ pc[p] = "sent"
  /\ reply' = [reply EXCEPT ![p] = Reply("timeout", <<>>, 0)]
  /\ pc' = [pc EXCEPT ![p] = "answered"]
  /\ UNCHANGED <<movies, nextId, op, args, movie, err, stmts, list, uvars, hvars, calc>>

\* --------------------------------------------------------- UserRepository
\* A user repository call issues its statement.
UserIssue(p, o, u, a) ==
  /\ pc' = [pc EXCEPT ![p] = "sent"]
  /\ op' = [op EXCEPT ![p] = o]
  /\ args' = [args EXCEPT ![p] = a]
  /\ user' = [user EXCEPT ![p] = u]
  /\ reply' = [reply EXCEPT ![p] = NoReply]
  /\ err' = [err EXCEPT ![p] = Nil]
  /\ stmts' = [stmts EXCEPT ![p] = 1]
  /\ UNCHANGED <<movies, nextId, movie, list, users, nextUserId, calc>>

\* A user repository call takes the store's reply and returns.
UserFinish(p, out) ==
  /\ pc' = [pc EXCEPT ![p] = "ready"]
  /\ user' = [user EXCEPT ![p] = out.user]
  /\ err' = [err EXCEPT ![p] = out.err]
  /\ reply' = [reply EXCEPT ![p] = NoReply]
  /\ UNCHANGED <<movies, nextId, op, args, stmts, movie, list, users, nextUserId, hvars, calc>>

UserOutcome(u, e) == [user |-> u, err |-> e]

UserArgs(u) == <<u.Name, u.Email, u.PasswordHash, u.Activated, u.ID, u.Version>>

\* UserRepository.Create
UserCreateOutcome(u, r) ==
  IF ScanErr(r) # Nil
  THEN IF ErrorsAsPgError(ScanErr(r)) /\ PgErrorCode(ScanErr(r)) = UniqueViolation
       THEN UserOutcome(u, ErrDuplicateEmail)
       ELSE UserOutcome(u, ScanErr(r))
  ELSE UserOutcome([u EXCEPT !.ID = r.rows[1][1], !.CreatedAt = r.rows[1][2],
                             !.Version = r.rows[1][3]], Nil)

UserCreate(p, u) == UserIssue(p, "UserCreate", u, SubSeq(UserArgs(u), 1, 4))

UserCreateCall(p, sc) ==
  /\ pc[p] = "ready" /\ hpc[p] = "idle"
  /\ UNCHANGED hvars
  /\ \E e \in Emails : UserCreate(p, User(0, 0, "Ann", e, "hash", FALSE, 0))

UserCreateReturn(p) ==
  /\ pc[p] = "answered" /\ op[p] = "UserCreate"
  /\ UserFinish(p, UserCreateOutcome(user[p], reply[p]))

\* UserRepository.Read
UserReadOutcome(r) ==
  IF ScanErr(r) # Nil
  THEN IF ErrorsIs(ScanErr(r), sqlErrNoRows)
       THEN UserOutcome(ZeroUser, ErrRecordNotFound)
       ELSE UserOutcome(ZeroUser, ScanErr(r))
  ELSE UserOutcome(User(r.rows[1][1], r.rows[1][2], r.rows[1][3], r.rows[1][4],
                        r.rows[1][5], r.rows[1][6], r.rows[1][7]), Nil)

UserReadCall(p, sc) ==
  /\ pc[p] = "ready" /\ hpc[p] = "idle"
  /\ UNCHANGED hvars
  /\ \E e \in Emails : UserIssue(p, "UserRead", ZeroUser, <<e>>)

UserReadReturn(p) ==
  /\ pc[p] = "answered" /\ op[p] = "UserRead"
  /\ UserFinish(p, UserReadOutcome(reply[p]))

\* UserRepository.Update
\* Update handing every error of the store on as it is.
UserUpdateOutcomeRaw(u, r) ==
  IF ScanErr(r) # Nil THEN UserOutcome(u, ScanErr(r))
  ELSE UserOutcome([u EXCEPT !.Version = r.rows[1][1]], Nil)

UserUpdateOutcome(u, r) ==
  IF ScanErr(r) # Nil
  THEN IF ErrorsAsPgError(ScanErr(r)) /\ PgErrorCode(ScanErr(r)) = UniqueViolation
       THEN UserOutcome(u, ErrDuplicateEmail)
       ELSE UserOutcome(u, ScanErr(r))
  ELSE UserOutcome([u EXCEPT !.Version = r.rows[1][1]], Nil)

UserUpdateCall(p, sc) ==
  /\ pc[p] = "ready" /\ hpc[p] = "idle"
  /\ UNCHANGED hvars
  /\ \E id \in sc.ids, v \in sc.versions, e \in Emails :
       UserIssue(p, "UserUpdate", User(id, 0, "Ann", e, "hash", TRUE, v),
                 UserArgs(User(id, 0, "Ann", e, "hash", TRUE, v)))

UserUpdateReturn(p) ==
  /\ pc[p] = "answered" /\ op[p] = "UserUpdate"
  /\ UserFinish(p, UserUpdateOutcome(user[p], reply[p]))

\* The statement a process has issued on the users table, executed on the
\* table as it is now.
UserExecute(p) ==
  CASE op[p] = "UserCreate" -> createUserSQL(users, nextUserId, args[p])
    [] op[p] = "UserRead"   -> readUserSQL(users, args[p])
    [] op[p] = "UserUpdate" -> updateUserSQL(users, args[p])

\* The store executes the users statement of p, atomically, within the
\* deadline.  The id sequence advances on every insert attempted.
UserStoreAnswer(p, sc) ==
  /\ pc[p] = "sent"
  /\ op[p] \in {"UserCreate", "UserRead", "UserUpdate"}
  /\ op[p] = "UserCreate" => nextUserId <= sc.maxId
  /\ op[p] = "UserUpdate" /\ args[p][5] \in DOMAIN users
       => users[args[p][5]].version < sc.maxVersion
  /\ users' = UserExecute(p).table
  /\ nextUserId' = IF op[p] = "UserCreate" THEN nextUserId + 1 ELSE nextUserId
  /\ reply' = [reply EXCEPT ![p] = ReplyOf(UserExecute(p))]
  /\ pc' = [pc EXCEPT ![p] = "answered"]
  /\ UNCHANGED <<movies, nextId, op, args, movie, err, stmts, list, user, hvars, calc>>

\* The server refuses the users statement of p and executes nothing.
UserStoreRefuses(p) ==
  /\ pc[p] = "sent"
  /\ op[p] \in {"UserCreate", "UserRead", "UserUpdate"}
  /\ reply' = [reply EXCEPT ![p] = Reply("refused", <<>>, 0)]
  /\ pc' = [pc EXCEPT ![p] = "answered"]
  /\ UNCHANGED <<movies, nextId, op, args, movie, err, stmts, list, uvars, hvars, calc>>

\* ----------------------------------------------------- updateMovieHandler
\* A request ends with a response.
Respond(p, r) ==
  /\ resp' = [resp EXCEPT ![p] = r]
  /\ hpc' = [hpc EXCEPT ![p] = "idle"]
  /\ UNCHANGED reg

\* The request calls the repository.
Proceed(p, at) ==
  /\ hpc' = [hpc EXCEPT ![p] = at]
  /\ resp' = [resp EXCEPT ![p] = "none"]
  /\ hcalls' = [hcalls EXCEPT ![p] = IF at = "read" THEN 1 ELSE @ + 1]
  /\ UNCHANGED reg

\* The variables of the repository and of the store.
rvars == <<movies, nextId, pc, op, args, reply, movie, err, stmts, list, uvars, calc>>

\* web.ReadIDParam and the call of Movies.Read.
HandlerReadID(p, sc) ==
  /\ pc[p] = "ready" /\ hpc[p] = "idle"
  /\ \E id \in sc.ids :
       IF id < 1
       THEN /\ Respond(p, "notFound")
            /\ hcalls' = [hcalls EXCEPT ![p] = 0]
            /\ UNCHANGED rvars
       ELSE Read(p, id) /\ Proceed(p, "read")

\* Movies.Read has returned: the body is decoded, merged into the movie
\* and validated, and Movies.Update is called.
HandlerMerge(p, sc) ==
  /\ pc[p] = "ready" /\ hpc[p] = "read"
  /\ IF err[p] # Nil
     THEN /\ Respond(p, IF ErrorsIs(err[p], ErrRecordNotFound)
                        THEN "notFound" ELSE "serverError")
          /\ UNCHANGED <<rvars, hcalls>>
     ELSE \E b \in sc.bodies :
            IF ~b.ok
            THEN /\ Respond(p, "badRequest")
                 /\ UNCHANGED <<rvars, hcalls>>
            ELSE IF ~Validate(FromUpdateMovie(movie[p], b.input))
            THEN /\ Respond(p, "failedValidation")
                 /\ movie' = [movie EXCEPT ![p] = FromUpdateMovie(@, b.input)]
                 /\ UNCHANGED <<movies, nextId, pc, op, args, reply, err, stmts,
                                list, uvars, hcalls, calc>>
            ELSE /\ Update(p, FromUpdateMovie(movie[p], b.input))
                 /\ Proceed(p, "update")

\* Movies.Update has returned: the response.
HandlerRespond(p) ==
  /\ pc[p] = "ready" /\ hpc[p] = "update"
  /\ Respond(p, IF err[p] = Nil THEN "ok"
                ELSE IF ErrorsIs(err[p], ErrEditConflict) THEN "editConflict"
                ELSE "serverError")
  /\ UNCHANGED <<rvars, hcalls>>

\* --------------------------------------------------- registerUserHandler
\* The request ends: what it has done, and the last response it sent.
RegisterEnd(p, r) ==
  /\ reg' = [reg EXCEPT ![p] = r]
  /\ resp' = [resp EXCEPT ![p] =
                IF r.responses = <<>> THEN "none"
                ELSE r.responses[Len(r.responses)]]
  /\ hpc' = [hpc EXCEPT ![p] = "idle"]

\* registerUserHandler up to the call of Users.Create: the body is
\* decoded, copied into the user and hashed; a failed hashing is answered
\* with the server-error response and the handler goes on; the user is
\* validated, which panics on a nil hash; a valid user is passed to
\* Users.Create.
RegisterUserHandler(p, sc) ==
  /\ pc[p] = "ready" /\ hpc[p] = "idle"
  /\ \E b \in sc.bodies, generated \in BOOLEAN :
       LET set == PasswordSet(Password(<<>>, ""), b.input.Password, generated)
           u == [FromNewUser(ZeroUser, b.input) EXCEPT
                   !.PasswordHash = set.password.hash]
           hash == IF set.err # Nil THEN "failed" ELSE "set"
           sent == IF set.err # Nil THEN <<"serverError">> ELSE <<>>
           vld == UserValidate(u, set.password)
       IN IF ~b.ok
          THEN /\ RegisterEnd(p, Registration("none", "none", <<"badRequest">>, {}))
               /\ hcalls' = [hcalls EXCEPT ![p] = 0]
               /\ UNCHANGED rvars
          ELSE IF vld.panics
          THEN /\ RegisterEnd(p, Registration(hash, "panic", sent, vld.errors))
               /\ hcalls' = [hcalls EXCEPT ![p] = 0]
               /\ UNCHANGED rvars
          ELSE IF vld.errors # {}
          THEN /\ RegisterEnd(p, Registration(hash, "invalid",
                                              sent \o <<"failedValidation">>,
                                              vld.errors))
               /\ hcalls' = [hcalls EXCEPT ![p] = 0]
               /\ UNCHANGED rvars
          ELSE /\ UserCreate(p, u)
               /\ reg' = [reg EXCEPT ![p] = Registration(hash, "valid", sent, {})]
               /\ resp' = [resp EXCEPT ![p] = "none"]
               /\ hpc' = [hpc EXCEPT ![p] = "register"]
               /\ hcalls' = [hcalls EXCEPT ![p] = 1]

\* Users.Create has returned: the response.
RegisterUserRespond(p) ==
  /\ pc[p] = "ready" /\ hpc[p] = "register"
  /\ RegisterEnd(p,
        IF err[p] # Nil
        THEN IF ErrorsIs(err[p], ErrDuplicateEmail)
             THEN [reg[p] EXCEPT !.responses = @ \o <<"failedValidation">>,
                                 !.errors = @ \cup {"email"}]
             ELSE [reg[p] EXCEPT !.responses = @ \o <<"serverError">>]
        ELSE [reg[p] EXCEPT !.responses = @ \o <<"created">>])
  /\ UNCHANGED <<rvars, hcalls>>

\* One step of process p: a repository call begins, the store answers it or
\* its deadline passes, or it returns.
RepositoryStep(p, sc) ==
  \/ CreateCall(p, sc) \/ CreateReturn(p)
  \/ ReadCall(p, sc) \/ ReadReturn(p)
  \/ UpdateCall(p, sc) \/ UpdateReturn(p)
  \/ DeleteCall(p, sc) \/ DeleteReturn(p)
  \/ StoreAnswer(p, sc)
  \/ StoreTimeout(p)

\* Concurrent callers of the movie repository on one record, and on ids
\* that hold no row.
RepoScope == Scope(Procs, 0..1, 0..MaxVersion, MovieInputs, {}, 1, MaxVersion)

Next == \E p \in RepoScope.procs : RepositoryStep(p, RepoScope)

Spec == Init /\ [][Next]_vars

\* One caller of the movie repository on several records.
SeqScope == Scope({1}, 0..MaxId, 0..MaxVersion, MovieInputs, {}, MaxId, MaxVersion)

SeqNext ==
  \E p \in SeqScope.procs :
    \/ RepositoryStep(p, SeqScope)
    \/ ReadAllCall(p, Listings)
    \/ ReadAllReturn(p)

SeqSpec == Init /\ [][SeqNext]_vars

\* One caller that creates movies from structs already filled in, and
\* deletes them.
CreateScope == Scope({1}, 0..MaxId, 0..MaxVersion, MovieInputs, {}, MaxId, MaxVersion)

CreateNext ==
  \E p \in CreateScope.procs :
    \/ CreateOverCall(p, CreateScope) \/ CreateReturn(p)
    \/ DeleteCall(p, CreateScope) \/ DeleteReturn(p)
    \/ StoreAnswer(p, CreateScope)
    \/ StoreTimeout(p)

CreateSpec == Init /\ [][CreateNext]_vars

\* Concurrent callers of the movie repository on two records.
PairScope ==
  Scope(Procs, 1..MaxId, 1..(MaxVersion - 1), MovieInputs, {}, MaxId, MaxVersion - 1)

PairNext ==
  \E p \in PairScope.procs :
    \/ CreateCall(p, PairScope) \/ CreateReturn(p)
    \/ UpdateCall(p, PairScope) \/ UpdateReturn(p)
    \/ DeleteCall(p, PairScope) \/ DeleteReturn(p)
    \/ StoreAnswer(p, PairScope)
    \/ StoreTimeout(p)

PairSpec == Init /\ [][PairNext]_vars

\* Concurrent callers of the user repository.
UserScope == Scope(Procs, 1..MaxId, 1..(MaxVersion - 1), {}, {}, MaxId, MaxVersion - 1)

UserNext ==
  \E p \in UserScope.procs :
    \/ UserCreateCall(p, UserScope) \/ UserCreateReturn(p)
    \/ UserReadCall(p, UserScope) \/ UserReadReturn(p)
    \/ UserUpdateCall(p, UserScope) \/ UserUpdateReturn(p)
    \/ UserStoreAnswer(p, UserScope)
    \/ UserStoreRefuses(p)
    \/ StoreTimeout(p)

UserSpec == Init /\ [][UserNext]_vars

\* Concurrent update requests on one record, which callers of the
\* repository create and delete.
HandlerScope ==
  Scope(Procs, 0..1, {}, {NewMovie("Up", 2009, 96, <<"animation", "adventure">>)},
        UpdateBodies, 1, MaxVersion)

HandlerNext ==
  \E p \in HandlerScope.procs :
    \/ HandlerReadID(p, HandlerScope)
    \/ HandlerMerge(p, HandlerScope)
    \/ HandlerRespond(p)
    \/ CreateCall(p, HandlerScope) \/ CreateReturn(p)
    \/ DeleteCall(p, HandlerScope) \/ DeleteReturn(p)
    \/ ReadReturn(p) \/ UpdateReturn(p)
    \/ StoreAnswer(p, HandlerScope)
    \/ StoreTimeout(p)

HandlerSpec == Init /\ [][HandlerNext]_vars

\* Concurrent registration requests.
RegisterScope == Scope(Procs, {}, {}, {}, RegisterBodies, MaxId, MaxVersion)

RegisterNext ==
  \E p \in RegisterScope.procs :
    \/ RegisterUserHandler(p, RegisterScope)
    \/ RegisterUserRespond(p)
    \/ UserCreateReturn(p)
    \/ UserStoreAnswer(p, RegisterScope)
    \/ UserStoreRefuses(p)
    \/ StoreTimeout(p)

RegisterSpec == Init /\ [][RegisterNext]_vars

\* ------------------------------------------------ functions of no store
\* Everything but the call of a function.
svars ==
  <<movies, nextId, pc, op, args, reply, movie, err, stmts, list, uvars, hvars>>

\* NewMetadata on the record counts, pages and page sizes a listing can
\* have: the count of a listing that matched nothing or something, and the
\* page sizes ValidateFilters accepts.
NewMetadataInputs ==
  {<<total, page, pageSize>> :
     total \in 0..MaxTotal, page \in 1..MaxCurrentPage, pageSize \in 1..MaxPageSize}

NewMetadataInit ==
  /\ StoreInit
  /\ calc \in {Call("NewMetadata", in) : in \in NewMetadataInputs}

NewMetadataCall ==
  /\ calc.fn = "NewMetadata" /\ ~calc.done
  /\ calc' = Result(calc, NewMetadata(calc.in[1], calc.in[2], calc.in[3]))
  /\ UNCHANGED svars

NewMetadataSpec == NewMetadataInit /\ [][NewMetadataCall]_vars

\* Filters values inside, on and outside the limits of ValidateFilters.
FiltersInputs ==
  {Filters(page, pageSize, sort, MovieSortSafelist) :
     page \in {-1, 0, 1, 2, 3, MaxPage - 1, MaxPage, MaxPage + 1},
     pageSize \in {-1, 0, 1, 20, MaxPageSize - 1, MaxPageSize, MaxPageSize + 1},
     sort \in {<<"id">>, <<"-", "year">>, <<"version">>}}

FiltersInit ==
  /\ StoreInit
  /\ calc \in {Call("Filters", f) : f \in FiltersInputs}

\* ValidateFilters, Limit and Offset on one Filters value.
FiltersCall ==
  /\ calc.fn = "Filters" /\ ~calc.done
  /\ calc' = Result(calc, [valid |-> ValidateFilters(calc.in),
                            limit |-> Limit(calc.in),
                            offset |-> Offset(calc.in)])
  /\ UNCHANGED svars

FiltersSpec == FiltersInit /\ [][FiltersCall]_vars

\* The movies an input is merged into: one as a Read returns it, and the
\* zero Movie.
MergeTargets ==
  {Movie(1, 7, "Up", 2009, 96, <<"animation", "adventure">>, 2), ZeroMovie}

\* The decoded request bodies: every field absent, present with its zero
\* value, or present with a value.
UpdateMovieInputs ==
  {UpdateMovie(title, year, runtime, genres) :
     title \in {<<>>, <<"">>, <<"Coco">>},
     year \in {<<>>, <<0>>, <<2017>>},
     runtime \in {<<>>, <<0>>, <<105>>},
     genres \in {<<>>, << <<>> >>, << <<"family">> >>}}

NewMovieInputs ==
  MovieInputs \cup {NewMovie("", 0, 0, <<>>)}

MergeInit ==
  /\ StoreInit
  /\ \/ \E m \in MergeTargets, in \in UpdateMovieInputs :
          calc = Call("FromUpdateMovie", <<m, in>>)
     \/ \E m \in MergeTargets, in \in NewMovieInputs :
          calc = Call("FromNewMovie", <<m, in>>)

FromUpdateMovieCall ==
  /\ calc.fn = "FromUpdateMovie" /\ ~calc.done
  /\ calc' = Result(calc, FromUpdateMovie(calc.in[1], calc.in[2]))
  /\ UNCHANGED svars

FromNewMovieCall ==
  /\ calc.fn = "FromNewMovie" /\ ~calc.done
  /\ calc' = Result(calc, FromNewMovie(calc.in[1], calc.in[2]))
  /\ UNCHANGED svars

MergeNext == FromUpdateMovieCall \/ FromNewMovieCall

MergeSpec == MergeInit /\ [][MergeNext]_vars

\* ------------------------------------------------------------ the claims
\* The store executes the statement of p in this step, within its deadline.
Answered(p) == pc[p] = "sent" /\ pc'[p] = "answered" /\ reply'[p].status = "ok"

\* The repository call of p returns in this step, after a store round-trip.
Returned(p) == pc[p] = "answered" /\ pc'[p] = "ready"

\* A repository call of p begins and returns in this step, with no store
\* round-trip.
ReturnedEarly(p) ==
  /\ pc[p] = "ready" /\ pc'[p] = "ready"
  /\ <<op'[p], args'[p], movie'[p], err'[p], stmts'[p]>>
       # <<op[p], args[p], movie[p], err[p], stmts[p]>>

\* The call of p is an Update whose statement found its row.
UpdateWon(p) ==
  /\ op[p] = "Update"
  /\ \/ pc[p] = "answered" /\ reply[p].status = "ok" /\ Len(reply[p].rows) > 0
     \/ pc[p] = "ready" /\ err[p] = Nil

\* C1: an Update that presents the id of a row stored at version V together
\* with version V, and whose store call completes, leaves the row at version
\* V+1 with the supplied title, year, runtime and genres, returns no error
\* and writes V+1 into the caller's Movie.Version.
C1_UpdateAtStoredVersion ==
  [][\A p \in Procs :
       /\ ( /\ Answered(p) /\ op[p] = "Update"
            /\ movie[p].ID \in DOMAIN movies
            /\ movies[movie[p].ID].version = movie[p].Version )
          => /\ movie[p].ID \in DOMAIN movies'
             /\ movies'[movie[p].ID] =
                  Row(movie[p].ID, movies[movie[p].ID].created_at,
                      movie[p].Title, movie[p].Year, movie[p].Runtime,
                      movie[p].Genres, movie[p].Version + 1)
             /\ reply'[p].rows = << <<movie[p].Version + 1>> >>
       /\ ( /\ Returned(p) /\ op[p] = "Update"
            /\ reply[p].status = "ok" /\ Len(reply[p].rows) > 0 )
          => /\ err'[p] = Nil
             /\ movie'[p].Version = movie[p].Version + 1
             /\ movie'[p].Version = reply[p].rows[1][1]
             /\ stmts'[p] = 1
    ]_vars

\* After Create, an Update with version 1 has returned version 2 and the
\* row holds version 2 and the fields supplied.
C1_Witness ==
  \E p \in Procs :
    /\ pc[p] = "ready" /\ op[p] = "Update" /\ err[p] = Nil
    /\ args[p][6] = 1 /\ movie[p].Version = 2
    /\ movie[p].ID \in DOMAIN movies
    /\ movies[movie[p].ID].version = 2
    /\ movies[movie[p].ID].title = movie[p].Title
    /\ movies[movie[p].ID].genres = movie[p].Genres

\* C2: of the Update calls that present the same id and the same version,
\* at most one finds its row; every other one whose store call completes
\* returns ErrEditConflict.
C2_AtMostOneWinner ==
  \A p, q \in Procs :
    ( /\ p # q
      /\ op[p] = "Update" /\ op[q] = "Update"
      /\ args[p] # <<>> /\ args[q] # <<>>
      /\ args[p][5] = args[q][5] /\ args[p][6] = args[q][6]
      /\ UpdateWon(p) )
    => /\ ~UpdateWon(q)
       /\ pc[q] = "ready" => err[q] \in {ErrEditConflict, DeadlineExceeded}
       /\ pc[q] = "answered" /\ reply[q].status = "ok" => Len(reply[q].rows) = 0

\* Two Update calls in flight together with the same id and version: the
\* store has answered both, one with its row and one with no row.
C2_Witness ==
  \E p, q \in Procs :
    /\ p # q
    /\ op[p] = "Update" /\ op[q] = "Update"
    /\ pc[p] = "answered" /\ pc[q] = "answered"
    /\ args[p][5] = args[q][5] /\ args[p][6] = args[q][6]
    /\ reply[p].status = "ok" /\ Len(reply[p].rows) = 1
    /\ reply[q].status = "ok" /\ Len(reply[q].rows) = 0

\* C3: the stored version of a record is 1 when the record appears, the
\* record appears under an id never used before, and afterwards the version
\* only ever changes by +1, in the step in which the store executes an
\* Update statement that presents that id and the stored version.
C3_VersionDiscipline ==
  [][/\ nextId' >= nextId
     /\ \A id \in DOMAIN movies : id < nextId
     /\ \A id \in DOMAIN movies' \ DOMAIN movies :
          /\ movies'[id].version = 1
          /\ id = nextId /\ nextId' = nextId + 1
          /\ \E p \in Procs : Answered(p) /\ op[p] = "Create"
     /\ \A id \in DOMAIN movies' \cap DOMAIN movies :
          \/ movies'[id].version = movies[id].version
          \/ /\ movies'[id].version = movies[id].version + 1
             /\ \E p \in Procs :
                  /\ Answered(p) /\ op[p] = "Update"
                  /\ movie[p].ID = id /\ movie[p].Version = movies[id].version
                  /\ reply'[p].rows = << <<movies'[id].version>> >>
    ]_vars

\* A record has been updated twice, and another one created and deleted.
C3_Witness ==
  /\ 1 \in DOMAIN movies /\ movies[1].version = 3
  /\ nextId = 3 /\ 2 \notin DOMAIN movies

\* The store answers p's statement with no row, within the deadline.
\* C4: a UserRepository.Update whose statement matched no row (no such id,
\* or a stored version other than the one presented) returns
\* ErrEditConflict.
C4_UserUpdateConflict ==
  [][\A p \in Procs :
       (/\ pc[p] = "answered" /\ pc'[p] = "ready" /\ op[p] = "UserUpdate"
        /\ reply[p].status = "ok" /\ Len(reply[p].rows) = 0)
       => err'[p] = ErrEditConflict
    ]_vars

NoRowReply(p) ==
  pc[p] = "answered" /\ reply[p].status = "ok" /\ Len(reply[p].rows) = 0

\* C5: a Read of an id below 1 returns ErrRecordNotFound without a
\* statement being issued; a Read of an id that has no row, once the store
\* has answered, returns ErrRecordNotFound; Read never returns the driver's
\* no-rows error.
C5_ReadNotFound ==
  [][\A p \in Procs :
       /\ (op'[p] = "Read" /\ args'[p][1] < 1)
          => /\ pc'[p] = "ready" /\ err'[p] = ErrRecordNotFound
             /\ stmts'[p] = 0
       /\ (ReturnedEarly(p) /\ op'[p] = "Read")
          => movies' = movies /\ nextId' = nextId
       /\ (Answered(p) /\ op[p] = "Read" /\ args[p][1] \notin DOMAIN movies)
          => reply'[p].rows = <<>> /\ movies' = movies
       /\ (Returned(p) /\ op[p] = "Read" /\ NoRowReply(p))
          => err'[p] = ErrRecordNotFound
       /\ (op'[p] = "Read") => err'[p] \notin {pgxErrNoRows, sqlErrNoRows}
    ]_vars

\* A Read of an id below 1 and a Read of a deleted id have both returned
\* ErrRecordNotFound, the second one after a store round-trip.
C5_Witness ==
  \E p, q \in Procs :
    /\ pc[p] = "ready" /\ op[p] = "Read" /\ args[p][1] < 1
    /\ err[p] = ErrRecordNotFound /\ stmts[p] = 0
    /\ pc[q] = "ready" /\ op[q] = "Read" /\ args[q][1] >= 1
    /\ args[q][1] < nextId /\ args[q][1] \notin DOMAIN movies
    /\ err[q] = ErrRecordNotFound /\ stmts[q] = 1

\* C6: a UserRepository.Read of an email no users row holds returns
\* ErrRecordNotFound, and never the driver's no-rows error.
C6_UserReadNotFound ==
  [][\A p \in Procs :
       (/\ pc[p] = "answered" /\ pc'[p] = "ready" /\ op[p] = "UserRead"
        /\ reply[p].status = "ok" /\ Len(reply[p].rows) = 0)
       => /\ err'[p] = ErrRecordNotFound
          /\ err'[p] \notin {pgxErrNoRows, sqlErrNoRows}
    ]_vars

\* C7: a Delete of an id below 1 returns ErrRecordNotFound without a
\* statement; a Delete statement for an id with no row changes nothing and
\* the call returns ErrRecordNotFound; for an id with a row it removes that
\* row alone and the call returns nil; a removed id never holds a row
\* again, and a Read of it returns ErrRecordNotFound.
C7_DeleteRemoves ==
  [][/\ \A p \in Procs :
          /\ (op'[p] = "Delete" /\ args'[p][1] < 1)
             => /\ pc'[p] = "ready" /\ err'[p] = ErrRecordNotFound
                /\ stmts'[p] = 0
          /\ (ReturnedEarly(p) /\ op'[p] = "Delete") => movies' = movies
          /\ (Answered(p) /\ op[p] = "Delete")
             => IF args[p][1] \in DOMAIN movies
                THEN /\ DOMAIN movies' = DOMAIN movies \ {args[p][1]}
                     /\ \A i \in DOMAIN movies' : movies'[i] = movies[i]
                     /\ reply'[p].affected = 1
                ELSE movies' = movies /\ reply'[p].affected = 0
          /\ (Returned(p) /\ op[p] = "Delete" /\ reply[p].status = "ok")
             => err'[p] = IF reply[p].affected = 0 THEN ErrRecordNotFound ELSE Nil
          /\ (Answered(p) /\ op[p] = "Read" /\ args[p][1] \notin DOMAIN movies)
             => reply'[p].rows = <<>>
          /\ (Returned(p) /\ op[p] = "Read" /\ NoRowReply(p))
             => err'[p] = ErrRecordNotFound
     /\ \A id \in 1..(nextId - 1) :
          id \notin DOMAIN movies => id \notin DOMAIN movies'
    ]_vars

\* A Delete of a stored id has returned nil, and a later Delete of the
\* same id has returned ErrRecordNotFound.
C7_Witness ==
  \E p, q \in Procs :
    /\ pc[p] = "ready" /\ op[p] = "Delete" /\ err[p] = Nil /\ stmts[p] = 1
    /\ pc[q] = "ready" /\ op[q] = "Delete" /\ err[q] = ErrRecordNotFound
    /\ stmts[q] = 1 /\ args[q] = args[p]
    /\ args[p][1] \notin DOMAIN movies

\* C8: an Update statement for an id that holds no row changes nothing, in
\* particular it creates no row, and the call returns ErrEditConflict and
\* leaves the caller's struct as it was.
C8_UpdateOfDeleted ==
  [][\A p \in Procs :
       /\ (Answered(p) /\ op[p] = "Update" /\ movie[p].ID \notin DOMAIN movies)
          => /\ movies' = movies
             /\ reply'[p].rows = <<>>
       /\ (Returned(p) /\ op[p] = "Update" /\ NoRowReply(p))
          => /\ err'[p] = ErrEditConflict
             /\ movie'[p] = movie[p]
    ]_vars

\* A request has read a record, the record was deleted, and the request's
\* Update has returned ErrEditConflict: the id holds no row.
C8_Witness ==
  \E p \in Procs :
    /\ pc[p] = "ready" /\ op[p] = "Update" /\ err[p] = ErrEditConflict
    /\ hpc[p] = "idle" /\ resp[p] = "editConflict" /\ hcalls[p] = 2
    /\ movie[p].ID >= 1 /\ movie[p].ID < nextId /\ movie[p].Version >= 1
    /\ movie[p].ID \notin DOMAIN movies

\* C9: an Update call has issued exactly one statement whenever it is in
\* progress or has returned; once the store has replied it returns in its
\* next step, with ErrEditConflict when no row matched; and
\* updateMovieHandler, once Movies.Update has returned, responds in its next
\* step, after one Read and one Update, with the edit-conflict response when
\* the error is ErrEditConflict.
C9_NoRetry ==
  [][\A p \in Procs :
       /\ op'[p] = "Update" => stmts'[p] = 1
       /\ (op[p] = "Update" /\ pc[p] = "answered" /\ pc'[p] # "answered")
          => /\ pc'[p] = "ready"
             /\ NoRowReply(p) => err'[p] = ErrEditConflict
             /\ movies' = movies
       /\ (hpc[p] = "update" /\ pc[p] = "ready" /\ hpc'[p] # "update")
          => /\ hpc'[p] = "idle" /\ pc'[p] = "ready"
             /\ hcalls'[p] = 2 /\ stmts'[p] = 1
             /\ err[p] = ErrEditConflict => resp'[p] = "editConflict"
             /\ movies' = movies
       /\ hpc'[p] = "update" => hcalls'[p] = 2
    ]_vars

\* A request whose Update met a version advanced by another request has
\* answered with the edit-conflict response after two repository calls.
C9_Witness ==
  \E p \in Procs :
    /\ hpc[p] = "idle" /\ resp[p] = "editConflict" /\ hcalls[p] = 2
    /\ op[p] = "Update" /\ err[p] = ErrEditConflict /\ stmts[p] = 1
    /\ movie[p].ID \in DOMAIN movies
    /\ movies[movie[p].ID].version > movie[p].Version

\* C10: when the store call of Create, Read, Update, Delete or ReadAll
\* exceeds its deadline, the call returns the deadline's error, which is
\* neither ErrRecordNotFound nor ErrEditConflict, and ReadAll returns no
\* list with it.
C10_DeadlineError ==
  [][\A p \in Procs :
       (/\ Returned(p) /\ reply[p].status = "timeout"
        /\ op[p] \in {"Create", "Read", "Update", "Delete", "ReadAll"})
       => /\ err'[p] = DeadlineExceeded
          /\ err'[p] \notin {ErrRecordNotFound, ErrEditConflict}
          /\ op[p] = "ReadAll" => list'[p] = NoList
          /\ stmts'[p] = 1
    ]_vars

\* An Update presenting the stored version of an existing row has returned
\* the deadline's error after its one statement.
C10_Witness ==
  \E p \in Procs :
    /\ pc[p] = "ready" /\ op[p] = "Update" /\ err[p] = DeadlineExceeded
    /\ stmts[p] = 1
    /\ args[p][5] \in DOMAIN movies
    /\ movies[args[p][5]].version = args[p][6]

\* C11: Create sends the store the title, year, runtime and genres and
\* nothing else; the store assigns the row an id of at least 1 and version
\* 1 whatever ID, CreatedAt and Version the caller's Movie carried; and a
\* Create whose store call completes returns no error with the caller's
\* ID, CreatedAt and Version overwritten by the values the store assigned.
C11_CreateAssigns ==
  [][\A p \in Procs :
       /\ (pc[p] = "ready" /\ pc'[p] = "sent" /\ op'[p] = "Create")
          => args'[p] = <<movie'[p].Title, movie'[p].Year, movie'[p].Runtime,
                          movie'[p].Genres>>
       /\ (Answered(p) /\ op[p] = "Create")
          => /\ nextId >= 1 /\ nextId \notin DOMAIN movies
             /\ DOMAIN movies' = DOMAIN movies \cup {nextId}
             /\ movies'[nextId] =
                  Row(nextId, movies'[nextId].created_at, movie[p].Title,
                      movie[p].Year, movie[p].Runtime, movie[p].Genres, 1)
             /\ movies'[nextId].created_at # 0
             /\ reply'[p].rows =
                  << <<nextId, movies'[nextId].created_at, 1>> >>
       /\ (Returned(p) /\ op[p] = "Create" /\ reply[p].status = "ok")
          => /\ err'[p] = Nil
             /\ movie'[p].ID = reply[p].rows[1][1] /\ movie'[p].ID >= 1
             /\ movie'[p].CreatedAt = reply[p].rows[1][2]
             /\ movie'[p].Version = 1
             /\ CreateArgs(movie'[p]) = CreateArgs(movie[p])
    ]_vars

\* A Create called with a Movie carrying the ID of an existing row and
\* version 3: the store has inserted the row under the next id with version
\* 1 and the fields supplied, and returns that id and version.
C11_Witness ==
  \E p \in Procs :
    /\ pc[p] = "answered" /\ op[p] = "Create" /\ reply[p].status = "ok"
    /\ movie[p].ID = 1 /\ movie[p].Version = 3 /\ movie[p].CreatedAt = 3
    /\ 1 \in DOMAIN movies /\ 2 \in DOMAIN movies
    /\ reply[p].rows = << <<2, movies[2].created_at, 1>> >>
    /\ movies[2].version = 1 /\ movies[2].title = movie[p].Title

\* C12: NewMetadata(total, page, pageSize) is the all-zero Metadata when
\* total is 0; for a total of at least 1 and a page size in 1..100 it holds
\* the page, the page size, first page 1, the total, and as last page the
\* least number of pages of that size that hold the total (45 records in
\* pages of 20 end on page 3).
C12_NewMetadata ==
  (calc.fn = "NewMetadata" /\ calc.done) =>
    LET total == calc.in[1]
        page == calc.in[2]
        pageSize == calc.in[3]
    IN /\ total = 0 => calc.out = Metadata(0, 0, 0, 0, 0)
       /\ total >= 1 =>
            /\ calc.out.CurrentPage = page
            /\ calc.out.PageSize = pageSize
            /\ calc.out.FirstPage = 1
            /\ calc.out.TotalRecords = total
            /\ calc.out.LastPage * pageSize >= total
            /\ (calc.out.LastPage - 1) * pageSize < total
       /\ (total = 45 /\ page = 1 /\ pageSize = 20)
            => calc.out = Metadata(1, 20, 1, 3, 45)

\* NewMetadata(45, 1, 20) has returned last page 3.
C12_Witness ==
  /\ calc.fn = "NewMetadata" /\ calc.done
  /\ calc.in = <<45, 1, 20>>
  /\ calc.out.LastPage = 3 /\ calc.out.TotalRecords = 45

\* C13: for every Filters value the limit is PageSize and the offset is
\* PageSize short of Page * PageSize; ValidateFilters accepts a value only
\* with Page in 1..10,000,000 and PageSize in 1..100, and for every value
\* it accepts the offset is at least 0, at most 999,999,900 and within a
\* 32-bit signed integer.
C13_LimitOffset ==
  (calc.fn = "Filters" /\ calc.done) =>
    /\ calc.out.limit = calc.in.PageSize
    /\ calc.out.offset + calc.in.PageSize = calc.in.Page * calc.in.PageSize
    /\ calc.out.valid =>
         /\ calc.in.Page >= 1 /\ calc.in.Page <= 10000000
         /\ calc.in.PageSize >= 1 /\ calc.in.PageSize <= 100
         /\ calc.out.offset >= 0
         /\ calc.out.offset <= 999999900
         /\ calc.out.offset <= 2147483647

\* The last page ValidateFilters accepts, with the largest page size: the
\* offset is 999,999,900.
C13_Witness ==
  /\ calc.fn = "Filters" /\ calc.done /\ calc.out.valid
  /\ calc.in.Page = 10000000 /\ calc.in.PageSize = 100
  /\ calc.out.limit = 100 /\ calc.out.offset = 999999900

\* C14: a ReadAll whose Sort is not in SortSafelist stops in SortColumn's
\* panic without a statement issued and without a change to the store; and
\* the statement of every ReadAll that is issued has a Sort from the
\* safelist, the column being that Sort without its one leading "-", and
\* the direction DESC exactly when the Sort starts with "-".
C14_UnsafeSortRejected ==
  [][\A p \in Procs :
       /\ ( /\ pc[p] = "ready" /\ op'[p] = "ReadAll"
            /\ <<op'[p], args'[p], pc'[p], stmts'[p], err'[p]>>
                 # <<op[p], args[p], pc[p], stmts[p], err[p]>>
            /\ args'[p][1].filters.Sort \notin args'[p][1].filters.SortSafelist )
          => /\ pc'[p] = "ready" /\ stmts'[p] = 0
             /\ err'[p] = PanicUnsafeSort
             /\ list'[p] = NoList
             /\ movies' = movies
       /\ ( op'[p] = "ReadAll" /\ pc'[p] \in {"sent", "answered"} )
          => LET f == args'[p][1].filters
                 col == ReadAllArgs(args'[p][1])[5]
                 dir == ReadAllArgs(args'[p][1])[6]
             IN /\ f.Sort \in f.SortSafelist
                /\ dir \in {"ASC", "DESC"}
                /\ dir = "DESC" <=> f.Sort[1] = "-"
                /\ f.Sort = IF dir = "DESC" THEN <<"-">> \o col ELSE col
                /\ Len(col) = 1 /\ col[1] # "-"
    ]_vars

\* With a movie stored, a ReadAll sorted by "version", which the safelist
\* does not hold, has ended in the panic with no statement issued.
C14_Witness ==
  \E p \in Procs :
    /\ pc[p] = "ready" /\ op[p] = "ReadAll" /\ stmts[p] = 0
    /\ err[p] = PanicUnsafeSort
    /\ args[p][1].filters.Sort = <<"version">>
    /\ args[p][1].filters.Sort \notin args[p][1].filters.SortSafelist
    /\ movies # <<>>

\* The ids of the rows a listing statement returned.
ReturnedIds(rows) == {rows[k][2] : k \in 1..Len(rows)}

\* The stored movies whose title holds the word and whose genres hold the
\* genre asked for.
WithWord(word) ==
  {i \in DOMAIN movies : \/ word = "up" /\ movies[i].title = "Up"
                         \/ word = "coco" /\ movies[i].title = "Coco"}

WithGenre(genres) ==
  {i \in DOMAIN movies :
     \A g \in {genres[k] : k \in 1..Len(genres)} :
       g \in {movies[i].genres[k] : k \in 1..Len(movies[i].genres)}}

\* C15: a ReadAll statement changes nothing in the store; with an empty
\* title and empty genres it matches every stored movie, with an empty
\* title alone the movies that hold the genres, with empty genres alone
\* the movies whose title holds the word; so the first page of at least
\* the table's size returns the whole match set, the same on every call
\* while the table stays as it is.
C15_EmptyPredicatesMatchAll ==
  [][\A p \in Procs :
       (Answered(p) /\ op[p] = "ReadAll") =>
         LET l == args[p][1]
             rows == reply'[p].rows
             match == IF l.title = "" /\ l.genres = <<>> THEN DOMAIN movies
                      ELSE IF l.title = "" THEN WithGenre(l.genres)
                      ELSE IF l.genres = <<>> THEN WithWord(l.title)
                      ELSE WithWord(l.title) \cap WithGenre(l.genres)
         IN /\ movies' = movies /\ nextId' = nextId
            /\ ReturnedIds(rows) \subseteq match
            /\ \A k \in 1..Len(rows) : rows[k][1] = Cardinality(match)
            /\ (l.filters.Page = 1 /\ l.filters.PageSize >= Cardinality(match))
                 => /\ ReturnedIds(rows) = match
                    /\ Len(rows) = Cardinality(match)
    ]_vars

\* With two movies of different genres stored, a ReadAll with an empty
\* title and empty genres has returned both, and counts two records.
C15_Witness ==
  \E p \in Procs :
    /\ pc[p] = "ready" /\ op[p] = "ReadAll" /\ err[p] = Nil
    /\ args[p][1].title = "" /\ args[p][1].genres = <<>>
    /\ Cardinality(DOMAIN movies) = 2
    /\ movies[1].genres # movies[2].genres
    /\ {list[p].movies[k].ID : k \in 1..Len(list[p].movies)} = DOMAIN movies
    /\ list[p].metadata.TotalRecords = 2

\* C16: a ReadAll statement answers with no row when no stored movie
\* matches its title and genres, and a ReadAll whose statement answered
\* with no row returns no error, an empty slice that is not nil, and the
\* all-zero Metadata.
C16_NoMatchEmptyList ==
  [][\A p \in Procs :
       /\ ( /\ Answered(p) /\ op[p] = "ReadAll"
            /\ \A i \in DOMAIN movies :
                 \/ args[p][1].title # "" /\ i \notin WithWord(args[p][1].title)
                 \/ args[p][1].genres # <<>> /\ i \notin WithGenre(args[p][1].genres) )
          => reply'[p].rows = <<>>
       /\ ( /\ Returned(p) /\ op[p] = "ReadAll"
            /\ reply[p].status = "ok" /\ reply[p].rows = <<>> )
          => /\ err'[p] = Nil
             /\ ~list'[p].isNil /\ list'[p].movies = <<>>
             /\ list'[p].metadata = Metadata(0, 0, 0, 0, 0)
    ]_vars

\* With a movie stored whose title does not hold the word asked for, a
\* ReadAll for that word and a genre has returned no error, the empty
\* slice and the zero Metadata.
C16_Witness ==
  \E p \in Procs :
    /\ pc[p] = "ready" /\ op[p] = "ReadAll" /\ err[p] = Nil /\ stmts[p] = 1
    /\ args[p][1].title = "up"
    /\ movies # <<>> /\ WithWord("up") = {}
    /\ ~list[p].isNil /\ list[p].movies = <<>>
    /\ list[p].metadata = Metadata(0, 0, 0, 0, 0)

\* C17: FromUpdateMovie gives the Movie the value of every field present
\* in the input, a present zero value included, keeps every field absent
\* from the input, and keeps ID, CreatedAt and Version; FromNewMovie gives
\* the Movie the input's Title, Year, Runtime and Genres and keeps ID,
\* CreatedAt and Version.
C17_MergeFrame ==
  LET m == calc.in[1]
      in == calc.in[2]
      out == calc.out
  IN /\ (calc.fn \in {"FromUpdateMovie", "FromNewMovie"} /\ calc.done)
          => /\ out.ID = m.ID
             /\ out.CreatedAt = m.CreatedAt
             /\ out.Version = m.Version
     /\ (calc.fn = "FromUpdateMovie" /\ calc.done)
          => /\ Len(in.Title) = 1 => out.Title = in.Title[1]
             /\ Len(in.Title) = 0 => out.Title = m.Title
             /\ Len(in.Year) = 1 => out.Year = in.Year[1]
             /\ Len(in.Year) = 0 => out.Year = m.Year
             /\ Len(in.Runtime) = 1 => out.Runtime = in.Runtime[1]
             /\ Len(in.Runtime) = 0 => out.Runtime = m.Runtime
             /\ Len(in.Genres) = 1 => out.Genres = in.Genres[1]
             /\ Len(in.Genres) = 0 => out.Genres = m.Genres
     /\ (calc.fn = "FromNewMovie" /\ calc.done)
          => /\ out.Title = in.Title /\ out.Year = in.Year
             /\ out.Runtime = in.Runtime /\ out.Genres = in.Genres

\* An input whose title is present and empty and whose year is absent has
\* been merged into a stored movie: the title is empty, the year is kept,
\* and so are the id and the version.
C17_Witness ==
  /\ calc.fn = "FromUpdateMovie" /\ calc.done
  /\ calc.in[2].Title = <<"">> /\ calc.in[2].Year = <<>>
  /\ calc.in[2].Genres = << <<>> >>
  /\ calc.in[1].Title = "Up" /\ calc.in[1].Version = 2
  /\ calc.out.Title = "" /\ calc.out.Year = 2009 /\ calc.out.Genres = <<>>
  /\ calc.out.ID = 1 /\ calc.out.Version = 2

\* The store executes the users statement of p in this step.
UserExecuted(p) ==
  /\ pc[p] = "sent" /\ pc'[p] = "answered"
  /\ reply'[p].status \in {"ok", "failed"}

\* C18: the insert of a user whose email a stored user holds fails and
\* inserts no row, and Create returns ErrDuplicateEmail; the update that
\* finds its row and gives it the email another user holds fails and
\* leaves every row, that row's version included, as it was, and Update
\* returns ErrDuplicateEmail; a store call of Create or Update that ends
\* in another error (the deadline's, or the server's refusal) returns that
\* error as it is.
C18_DuplicateEmail ==
  [][\A p \in Procs :
       /\ ( /\ UserExecuted(p) /\ op[p] = "UserCreate"
            /\ \E i \in DOMAIN users : users[i].email = args[p][2] )
          => reply'[p].status = "failed" /\ users' = users
       /\ ( /\ UserExecuted(p) /\ op[p] = "UserUpdate"
            /\ args[p][5] \in DOMAIN users
            /\ users[args[p][5]].version = args[p][6]
            /\ \E i \in DOMAIN users \ {args[p][5]} : users[i].email = args[p][2] )
          => reply'[p].status = "failed" /\ users' = users
       /\ ( /\ Returned(p) /\ op[p] \in {"UserCreate", "UserUpdate"} )
          => /\ users' = users
             /\ reply[p].status = "failed" => err'[p] = ErrDuplicateEmail
             /\ reply[p].status = "timeout" => err'[p] = DeadlineExceeded
             /\ reply[p].status = "refused" => err'[p] = PgAdminShutdown
             /\ reply[p].status # "ok" => user'[p] = user[p]
    ]_vars

\* An Update that presented the stored version of its row and the email of
\* another user has returned ErrDuplicateEmail, and the row still has the
\* version presented and its own email.
C18_Witness ==
  \E p \in Procs :
    /\ pc[p] = "ready" /\ op[p] = "UserUpdate" /\ err[p] = ErrDuplicateEmail
    /\ args[p][5] \in DOMAIN users
    /\ users[args[p][5]].version = args[p][6]
    /\ users[args[p][5]].email # args[p][2]
    /\ \E i \in DOMAIN users \ {args[p][5]} : users[i].email = args[p][2]

\* The row stored under an id, or the mark of no row.
Stored(tbl, id) == IF id \in DOMAIN tbl THEN <<tbl[id]>> ELSE <<>>

\* C19: the store step of an Update on id A leaves every other id as it
\* was, finds its row exactly when row A is stored at the version
\* presented, whatever the other ids hold, and the call returns no error
\* when it found its row and ErrEditConflict when it did not; and the
\* store step of an Update or Delete on another id, or of a Create, which
\* takes an id never used, leaves row A as it was.
C19_OtherRecordsUntouched ==
  [][\A p \in Procs :
       /\ (Answered(p) /\ op[p] = "Update")
          => /\ \A id \in (DOMAIN movies \cup DOMAIN movies') \ {args[p][5]} :
                  Stored(movies', id) = Stored(movies, id)
             /\ Len(reply'[p].rows) = 1
                  <=> /\ Stored(movies, args[p][5]) # <<>>
                      /\ movies[args[p][5]].version = args[p][6]
       /\ (Returned(p) /\ op[p] = "Update" /\ reply[p].status = "ok")
          => /\ movies' = movies
             /\ err'[p] = IF Len(reply[p].rows) = 1 THEN Nil ELSE ErrEditConflict
       /\ (Answered(p) /\ op[p] \in {"Update", "Delete"})
          => \A id \in DOMAIN movies \ {args[p][IF op[p] = "Update" THEN 5 ELSE 1]} :
               Stored(movies', id) = Stored(movies, id)
       /\ (Answered(p) /\ op[p] = "Create")
          => \A id \in DOMAIN movies : Stored(movies', id) = Stored(movies, id)
    ]_vars

\* Two Updates in flight together on different ids: the store has answered
\* both with their rows, each at the version its caller presented plus one.
C19_Witness ==
  \E p, q \in Procs :
    /\ p # q
    /\ op[p] = "Update" /\ op[q] = "Update"
    /\ pc[p] = "answered" /\ pc[q] = "answered"
    /\ args[p][5] # args[q][5]
    /\ reply[p].status = "ok" /\ reply[p].rows = << <<args[p][6] + 1>> >>
    /\ reply[q].status = "ok" /\ reply[q].rows = << <<args[q][6] + 1>> >>
    /\ movies[args[p][5]].version = args[p][6] + 1
    /\ movies[args[q][5]].version = args[q][6] + 1

\* The last call of p is a Create that returned no error: args[p] holds
\* the fields it was given and movie[p] the values it wrote back.
Created(p) == pc[p] = "ready" /\ op[p] = "Create" /\ err[p] = Nil

\* C20: a Read of the id a successful Create wrote back, executed while
\* the row is stored at the version Create wrote back (no Update or Delete
\* of that id has come between: either one changes the version or removes
\* the row for good), finds the row with the Title, Year, Runtime and
\* Genres given to Create and the ID, CreatedAt and Version Create wrote
\* back; and a Read whose statement found a row returns no error and the
\* Movie of exactly that row.
C20_CreateReadRoundTrip ==
  [][\A p, q \in Procs :
       /\ ( /\ Created(p) /\ Answered(q) /\ op[q] = "Read"
            /\ args[q][1] = movie[p].ID
            /\ movie[p].ID \in DOMAIN movies
            /\ movies[movie[p].ID].version = movie[p].Version )
          => /\ Len(reply'[q].rows) = 1
             /\ reply'[q].rows[1] =
                  <<movie[p].ID, movie[p].CreatedAt, args[p][1], args[p][2],
                    args[p][3], args[p][4], movie[p].Version>>
       /\ ( /\ Returned(q) /\ op[q] = "Read"
            /\ reply[q].status = "ok" /\ Len(reply[q].rows) = 1 )
          => /\ err'[q] = Nil
             /\ <<movie'[q].ID, movie'[q].CreatedAt, movie'[q].Title,
                   movie'[q].Year, movie'[q].Runtime, movie'[q].Genres,
                   movie'[q].Version>> = reply[q].rows[1]
    ]_vars

\* One caller's Create has returned, another caller's Read of the id it
\* wrote back has returned the fields given to Create and the id and
\* version written back.
C20_Witness ==
  \E p, q \in Procs :
    /\ Created(p)
    /\ pc[q] = "ready" /\ op[q] = "Read" /\ err[q] = Nil
    /\ args[q] = <<movie[p].ID>>
    /\ movie[q].ID = movie[p].ID /\ movie[q].Version = movie[p].Version
    /\ <<movie[q].Title, movie[q].Year, movie[q].Runtime, movie[q].Genres>>
         = args[p]
    /\ movie[q].Genres = <<"animation", "adventure">>

\* The stored movies a listing's title and genres match.
Matching(l) ==
  (IF l.title = "" THEN DOMAIN movies ELSE WithWord(l.title))
    \cap (IF l.genres = <<>> THEN DOMAIN movies ELSE WithGenre(l.genres))

\* C21: a ReadAll that returns without error returns Metadata whose
\* TotalRecords is the number of stored movies its title and genres match,
\* whatever the page asked for, and whose LastPage is the least number of
\* pages of PageSize that hold them.  (One caller: the table at the return
\* is the table the statement ran on.)
C21_TotalRecordsCountsMatches ==
  [][\A p \in Procs :
       ( /\ Returned(p) /\ op[p] = "ReadAll" /\ err'[p] = Nil )
       => LET l == args[p][1]
              md == list'[p].metadata
          IN /\ md.TotalRecords = Cardinality(Matching(l))
             /\ md.LastPage * l.filters.PageSize >= Cardinality(Matching(l))
             /\ (md.LastPage - 1) * l.filters.PageSize < Cardinality(Matching(l))
    ]_vars

\* C22: the store step of an Update whose statement finds no row leaves
\* the table as it was, and the return of an Update with ErrEditConflict
\* leaves the table as it was and the caller's Movie as it was, its
\* Version still the version presented.
C22_ConflictChangesNothing ==
  [][\A p \in Procs :
       /\ ( /\ Answered(p) /\ op[p] = "Update" /\ Len(reply'[p].rows) = 0 )
          => movies' = movies
       /\ ( /\ Returned(p) /\ op[p] = "Update" /\ err'[p] = ErrEditConflict )
          => /\ movies' = movies
             /\ reply[p].status = "ok" /\ Len(reply[p].rows) = 0
             /\ movie'[p] = movie[p]
             /\ movie'[p].Version = args[p][6]
    ]_vars

\* An Update that presented version 1 of a row stored at version 2 with
\* another title has returned ErrEditConflict: the row has its version and
\* title, the caller's Movie still has version 1.
C22_Witness ==
  \E p \in Procs :
    /\ pc[p] = "ready" /\ op[p] = "Update" /\ err[p] = ErrEditConflict
    /\ args[p][6] = 1 /\ movie[p].Version = 1
    /\ args[p][5] \in DOMAIN movies
    /\ movies[args[p][5]].version = 2
    /\ movies[args[p][5]].title # movie[p].Title

\* The business fields of a stored row, and those a request body gives a
\* movie read from that row.
RowFields(r) == <<r.title, r.year, r.runtime, r.genres>>
MergedFields(r, in) ==
  LET m == FromUpdateMovie(Movie(r.id, r.created_at, r.title, r.year, r.runtime,
                                 r.genres, r.version), in)
  IN <<m.Title, m.Year, m.Runtime, m.Genres>>

\* C23: through updateMovieHandler no update is lost: the store step that
\* commits a request's Update finds the row at the version the request
\* read, and writes, one version later, fields that some request body merges
\* onto the fields of that row as stored just before; an Update that finds
\* no row changes nothing, and the request answers with the edit-conflict
\* response, the store as it was.
C23_NoLostUpdate ==
  [][\A p \in Procs :
       /\ ( /\ Answered(p) /\ op[p] = "Update" /\ hpc[p] = "update"
            /\ Len(reply'[p].rows) = 1 )
          => LET id == args[p][5]
             IN /\ id \in DOMAIN movies /\ id \in DOMAIN movies'
                /\ movies[id].version = args[p][6]
                /\ movies[id].version = movie[p].Version
                /\ movies'[id].version = movies[id].version + 1
                /\ \E b \in UpdateBodies :
                     /\ b.ok
                     /\ RowFields(movies'[id]) = MergedFields(movies[id], b.input)
       /\ ( /\ Answered(p) /\ op[p] = "Update" /\ hpc[p] = "update"
            /\ Len(reply'[p].rows) = 0 )
          => movies' = movies
       /\ ( /\ Returned(p) /\ op[p] = "Update" /\ hpc[p] = "update" )
          => /\ NoRowReply(p) <=> err'[p] = ErrEditConflict
             /\ (reply[p].status = "ok" /\ Len(reply[p].rows) = 1) <=> err'[p] = Nil
             /\ movies' = movies
       /\ ( hpc[p] = "update" /\ hpc'[p] = "idle" )
          => /\ err[p] = ErrEditConflict <=> resp'[p] = "editConflict"
             /\ err[p] = Nil <=> resp'[p] = "ok"
             /\ resp'[p] = "ok" => movie[p].Version = args[p][6] + 1
             /\ movies' = movies
    ]_vars

\* Two requests read the same version of a record and sent different
\* changes: one has answered with the movie, the other with the
\* edit-conflict response, and the row holds the first one's fields one
\* version later, not the second one's.
C23_Witness ==
  \E p, q \in Procs :
    /\ p # q
    /\ hpc[p] = "idle" /\ resp[p] = "ok" /\ op[p] = "Update"
    /\ hpc[q] = "idle" /\ resp[q] = "editConflict" /\ op[q] = "Update"
    /\ args[p][5] = args[q][5] /\ args[p][6] = args[q][6]
    /\ args[p][5] \in DOMAIN movies
    /\ movies[args[p][5]].version = args[p][6] + 1
    /\ RowFields(movies[args[p][5]]) = <<args[p][1], args[p][2], args[p][3], args[p][4]>>
    /\ movies[args[p][5]].title # args[q][1]

\* The value a returned movie is ordered by, and the order of two returned
\* movies under a sort parameter.
MovieKey(m, col) ==
  CASE col = <<"id">> -> m.ID
    [] col = <<"title">> -> TitleRank(m.Title)
    [] col = <<"year">> -> m.Year
    [] col = <<"runtime">> -> m.Runtime

InOrder(a, b, f) ==
  LET ka == MovieKey(a, SortColumn(f))
      kb == MovieKey(b, SortColumn(f))
  IN \/ IF SortDirection(f) = "DESC" THEN ka > kb ELSE ka < kb
     \/ ka = kb /\ a.ID < b.ID

\* The ids page k of a listing holds on the table as it is, in the order
\* returned, and the number of pages of the listing.
PageIds(l, k) ==
  LET lk == [l EXCEPT !.filters.Page = k]
      rows == readAllMoviesSQL(movies, ReadAllArgs(lk)[5], ReadAllArgs(lk)[6],
                               ReadAllArgs(lk)).rows
  IN [j \in 1..Len(rows) |-> rows[j][2]]

PagesOf(l) ==
  NewMetadata(Cardinality(Matching(l)), 1, l.filters.PageSize).LastPage

SeqIds(ids) == {ids[j] : j \in 1..Len(ids)}

\* C24: a ReadAll that returns without error returns at most PageSize
\* movies, each before the next under the sort column and direction, equal
\* values in ascending id; it returns the page asked for, it reports the
\* listing's number of pages when it returns a movie, and, on the table as
\* it is, pages 1 to that number have no movie twice, share no movie, and
\* together hold the movies the title and genres match.
C24_PagesPartitionMatches ==
  [][\A p \in Procs :
       ( /\ Returned(p) /\ op[p] = "ReadAll" /\ err'[p] = Nil )
       => LET l == args[p][1]
              f == l.filters
              ms == list'[p].movies
              n == PagesOf(l)
          IN /\ Len(ms) <= f.PageSize
             /\ \A k \in 1..(Len(ms) - 1) : InOrder(ms[k], ms[k + 1], f)
             /\ [k \in 1..Len(ms) |-> ms[k].ID] = PageIds(l, f.Page)
             /\ Len(ms) > 0 => list'[p].metadata.LastPage = n
             /\ \A k \in 1..n :
                  /\ Len(PageIds(l, k)) >= 1
                  /\ Len(PageIds(l, k)) <= f.PageSize
                  /\ Cardinality(SeqIds(PageIds(l, k))) = Len(PageIds(l, k))
             /\ \A j, k \in 1..n :
                  j # k => SeqIds(PageIds(l, j)) \cap SeqIds(PageIds(l, k)) = {}
             /\ UNION {SeqIds(PageIds(l, k)) : k \in 1..n} = Matching(l)
    ]_vars

\* Two movies are stored and a ReadAll of page 2 of size 1 by descending
\* title has returned one of them, the other being on page 1, and reports
\* two pages.
C24_Witness ==
  \E p \in Procs :
    /\ pc[p] = "ready" /\ op[p] = "ReadAll" /\ err[p] = Nil
    /\ args[p][1].filters.Page = 2 /\ args[p][1].filters.PageSize = 1
    /\ Cardinality(DOMAIN movies) = 2
    /\ Len(list[p].movies) = 1
    /\ list[p].metadata.LastPage = 2
    /\ PageIds(args[p][1], 1) # PageIds(args[p][1], 2)
    /\ list[p].movies[1].ID = PageIds(args[p][1], 2)[1]

\* C25: a registerUserHandler request that has ended has sent one response;
\* when hashing failed that response is the server-error response and the
\* request has neither validated the user nor called Create; when the user
\* is invalid it is the validation response and Create was not called; when
\* Create returned ErrDuplicateEmail it is the validation response with an
\* error on email; and the request has created a user only when it
\* answered with the created user.
C25_RegisterRespondsOnce ==
  \A p \in Procs :
    (hpc[p] = "idle" /\ reg[p] # NoRegistration)
    => /\ Len(reg[p].responses) = 1
       /\ reg[p].hash = "failed"
            => /\ reg[p].responses = <<"serverError">>
               /\ reg[p].validate = "none"
               /\ hcalls[p] = 0
       /\ reg[p].validate = "invalid"
            => /\ reg[p].responses = <<"failedValidation">>
               /\ hcalls[p] = 0
       /\ (hcalls[p] = 1 /\ err[p] = ErrDuplicateEmail)
            => /\ reg[p].responses = <<"failedValidation">>
               /\ "email" \in reg[p].errors
       /\ hcalls[p] = 1 => reg[p].hash = "set" /\ reg[p].validate = "valid"
       /\ reg[p].responses = <<"created">> => hcalls[p] = 1 /\ err[p] = Nil

====
